---------------------------- MODULE Spec2Model ----------------------------
(***************************************************************************)
(* Model of the siwETHOS authorization broker: the key-value storage       *)
(* adapters, the client registry, /authorize, /nonce, /wallet/verify,      *)
(* /token, the social-provider callbacks with their stateless token        *)
(* exchange, and the WebAuthn challenge store.                             *)
(*                                                                         *)
(* Time is in milliseconds (Date.now()).  Random strings are fresh: the    *)
(* n-th value drawn from a generator is ToString(n).  A JS value that may  *)
(* be null is a sequence: <<>> is null, <<v>> is the value v.              *)
(***************************************************************************)
EXTENDS Integers, Sequences, FiniteSets, TLC

VARIABLES
  now,        \* Date.now()
  adapter,    \* storage backend picked by createStorageAdapter
  store,      \* the adapter's key space: key -> [value, expiresAt]
  nNonces,    \* nonces drawn so far by generateNonce
  nCodes,     \* codes drawn so far by generateRandomString(48)
  nStates,    \* internal states drawn so far by generateRandomString(32)
  authz,      \* responses of finished /authorize requests
  ver,        \* /wallet/verify requests: slot -> request record
  tok,        \* /token requests: slot -> request record
  pendingNonce, \* the /nonce request between drawing its nonce and storing it
  issuedAt,   \* history: when storage.set last wrote each expiring key
  session,    \* the browser's oauth_session cookie
  callbacks,  \* responses of finished social callbacks, oldest first
  exchanges,  \* responses of the social token exchange, oldest first
  chal,       \* Redis key space of the WebAuthn challenge store
  nChal,      \* challenges drawn so far
  cons,       \* WebAuthn verify requests: slot -> request record
  credentials, \* the WebAuthn credential store: credentialId -> [counter]
  redirectCheck, \* the last validateRedirectUri call: its arguments and result
  jwt,        \* the access token under test with the arguments it was made from
  jwtChecks,  \* verifyAccessToken calls on that token, oldest first
  userinfo,   \* responses of finished /userinfo requests, oldest first
  modal,      \* the sign-in modal's Farcaster polling loop
  page,       \* the Farcaster sign-in page's polling loop
  boot,       \* ensureDemoClient calls in progress: caller -> position
  statusReq,  \* /api/auth/farcaster/status requests: slot -> request record
  userCredentials, \* Redis sets of the credential store: userId -> credential ids
  creates     \* credentialStore.create calls in progress: slot -> call record

coreVars ==
  <<now, adapter, store, nNonces, nCodes, nStates, authz, ver, tok, pendingNonce, issuedAt>>
socialVars == <<session, callbacks, exchanges>>
waVars == <<chal, nChal, cons, credentials, userCredentials>>
uiVars == <<modal, page>>
libVars == <<redirectCheck, jwt, jwtChecks, userinfo, uiVars, boot, statusReq, creates>>

\* ------------------------------------------------------------------ bounds
TickStep == 301000     \* milliseconds added by one Tick
MaxTime == 301000      \* last instant the clock reaches
MaxNonces == 1
MaxCodes == 2
MaxStates == 1
MaxVer == 2            \* concurrent /wallet/verify requests
MaxTok == 2            \* concurrent /token requests
TokenTickStep == 1200000   \* clock step while an access token ages
TokenMaxTime == 4800000    \* the clock stops here while a token ages
MaxJwtChecks == 2      \* verifyAccessToken calls recorded
MaxUserInfo == 2       \* /userinfo responses recorded

\* ------------------------------------------------- program constants
NONCE_EXPIRY_SECONDS == 300
AUTH_STATE_TTL == 300
AUTH_CODE_TTL == 300
ETHOS_CACHE_TTL == 600
TOKEN_EXPIRES_IN == 3600
JWT_EXPIRY == 3600
JWT_ISSUER == "https://ethos.thebbz.xyz"

Null == <<>>
Some(v) == <<v>>
NoExpiry == 0

\* --------------------------------------------------------- storage keys
STORAGE_KEYS ==
  [AUTH_CODE |-> "auth:code:", AUTH_STATE |-> "auth:state:", CLIENT |-> "auth:client:",
   ETHOS_CACHE |-> "ethos:cache:", SIWE_NONCE |-> "nonce:"]

Key(prefix, id) == <<prefix, id>>

\* ------------------------------------------------------ storage adapters
\* A stored JS value is [type, data]: type "object" for a plain object and
\* "string" for a string holding the JSON text of data.
Obj(d) == [type |-> "object", data |-> d]
Str(d) == [type |-> "string", data |-> d]

\* A store that never expires a key.
NeverExpired(item, t) == FALSE

Expired(item, t) ==
  IF adapter = "memory"
    THEN item.expiresAt # NoExpiry /\ t > item.expiresAt
    ELSE item.expiresAt # NoExpiry /\ t >= item.expiresAt

Present(st, key, t) == key \in DOMAIN st /\ ~Expired(st[key], t)

Without(st, key) == [k \in DOMAIN st \ {key} |-> st[k]]

\* RedisAdapter.get parses the stored text; MemoryAdapter.get returns the
\* stored value itself.
storageGet(st, key, t) ==
  IF ~Present(st, key, t) THEN Null
  ELSE IF adapter = "memory" THEN Some(st[key].value)
  ELSE Some(Obj(st[key].value.data))

\* MemoryAdapter.get drops an expired item it comes across.
storageAfterGet(st, key, t) ==
  IF key \in DOMAIN st /\ Expired(st[key], t) THEN Without(st, key) ELSE st

\* A set that ignores its TTL and keeps the item for ever.
storageSetForever(st, key, value, ttlSeconds, t) ==
  [k \in DOMAIN st \cup {key} |->
     IF k = key THEN [value |-> value, expiresAt |-> NoExpiry] ELSE st[k]]

storageSet(st, key, value, ttlSeconds, t) ==
  [k \in DOMAIN st \cup {key} |->
     IF k = key
       THEN [value |-> value,
             expiresAt |-> IF ttlSeconds # 0 THEN t + ttlSeconds * 1000 ELSE NoExpiry]
       ELSE st[k]]

storageDelete(st, key) == Without(st, key)

\* The history of storage.set calls with a TTL: key -> time of the call.
Stamp(h, key, t) == [k \in DOMAIN h \cup {key} |-> IF k = key THEN t ELSE h[k]]

\* Redis expires keys on the server as time passes.
Purge(st, t) ==
  IF adapter = "redis"
    THEN [k \in {x \in DOMAIN st : ~Expired(st[x], t)} |-> st[k]]
    ELSE st

\* ------------------------------------------------------------------ URIs
\* A URI is the sequence of its tokens; "/" is a token of its own, so
\* https://app/cb is <<"https:", "/", "/", "app", "/", "cb">>.
appCb == <<"https:", "/", "/", "app", "/", "cb">>
localCb == <<"http:", "/", "/", "localhost", "/", "cb">>
RedirectUris == {appCb, localCb}

\* A URI no client has registered, and what a social login may be started with.
evilCb == <<"https:", "/", "/", "evil", "/", "cb">>
SocialRedirectUris == {appCb, evilCb}

\* The redirect URIs and registered patterns validateRedirectUri is tried
\* on; a host is the sequence of its labels and dots.
httpCb == <<"http:", "/", "/", "app", "/", "cb">>
ipCb == <<"http:", "/", "/", "127.0.0.1", "/", "cb">>
subLocalCb == <<"http:", "/", "/", "dev", ".", "localhost", "/", "cb">>
notLocalCb == <<"http:", "/", "/", "localhost", ".", "evil", "/", "cb">>
schemeLocalCb == <<"myapp:", "/", "/", "localhost", "/", "cb">>
relativeCb == <<"app", "/", "cb">>
exampleCb(host) == <<"https:", "/", "/">> \o host \o <<".", "example", ".", "com", "/", "cb">>
aExampleCb == exampleCb(<<"a">>)
bExampleCb == exampleCb(<<"b">>)
abExampleCb == exampleCb(<<"a", ".", "b">>)
bareExampleCb == <<"https:", "/", "/", "example", ".", "com", "/", "cb">>
wildExampleCb == exampleCb(<<"*">>)
anyUri == <<"*">>

TestUris ==
  {appCb, localCb, evilCb, httpCb, ipCb, subLocalCb, notLocalCb, schemeLocalCb,
   relativeCb, aExampleCb, bExampleCb, abExampleCb, bareExampleCb}
RegisteredUriLists == {<<appCb>>, <<anyUri>>, <<wildExampleCb>>, <<appCb, wildExampleCb>>}

Schemes == {"https:", "http:", "myapp:"}

\* new URL(uri) succeeds: scheme, "//", and a host.
urlParses(uri) ==
  /\ Len(uri) >= 4
  /\ uri[1] \in Schemes
  /\ uri[2] = "/" /\ uri[3] = "/"
  /\ uri[4] # "/"

hostEnd(uri) ==
  IF \E i \in 4..Len(uri) : uri[i] = "/"
    THEN (CHOOSE i \in 4..Len(uri) : uri[i] = "/" /\ \A j \in 4..(i - 1) : uri[j] # "/") - 1
    ELSE Len(uri)

hostname(uri) == SubSeq(uri, 4, hostEnd(uri))

\* A loopback check that knows the name localhost alone.
isLocalhostNameOnly(uri) == urlParses(uri) /\ hostname(uri) = <<"localhost">>

isLocalhostUri(uri) ==
  /\ urlParses(uri)
  /\ LET h == hostname(uri) IN
       \/ h = <<"localhost">>
       \/ h = <<"127.0.0.1">>
       \/ Len(h) >= 2 /\ h[Len(h)] = "localhost" /\ h[Len(h) - 1] = "."

\* A check that lets every scheme through.
isAnyUri(uri) == urlParses(uri)

isSecureUri(uri) == urlParses(uri) /\ uri[1] = "https:"

\* new RegExp(`^${pattern}$`).test(uri), the pattern's "*" rewritten to [^/]+
RECURSIVE regexTest(_, _)
regexTest(pattern, uri) ==
  IF pattern = <<>> THEN uri = <<>>
  ELSE IF Head(pattern) = "*"
    THEN \E k \in 1..Len(uri) :
           /\ \A j \in 1..k : uri[j] # "/"
           /\ regexTest(Tail(pattern), SubSeq(uri, k + 1, Len(uri)))
  ELSE uri # <<>> /\ Head(uri) = Head(pattern) /\ regexTest(Tail(pattern), Tail(uri))

\* ------------------------------------------------------- client registry
hashSecret(secret) == <<"sha256", secret>>

ClientKey(clientId) == Key(STORAGE_KEYS.CLIENT, clientId)

\* A registry lookup that never finds the client.
getClientMissing(st, clientId, t) == Null

getClient(st, clientId, t) == storageGet(st, ClientKey(clientId), t)

\* A credential check that accepts every client id and secret.
validateClientAny(st, clientId, clientSecret, t) == Some(Obj([clientId |-> clientId]))

validateClient(st, clientId, clientSecret, t) ==
  LET client == getClient(st, clientId, t) IN
    IF client = Null THEN Null
    ELSE IF client[1].data.clientSecretHash # hashSecret(clientSecret) THEN Null
    ELSE client

validateRedirectUri(st, clientId, redirectUri, t) ==
  LET client == getClient(st, clientId, t) IN
    IF client = Null THEN FALSE
    ELSE IF ~urlParses(redirectUri) THEN FALSE
    ELSE IF clientId = "demo_client" /\ isLocalhostUri(redirectUri) THEN TRUE
    ELSE LET uris == client[1].data.redirectUris IN
      IF Len(uris) = 1 /\ uris[1] = <<"*">>
        THEN isSecureUri(redirectUri) \/ isLocalhostUri(redirectUri)
        ELSE \E i \in 1..Len(uris) :
               \/ uris[i] = redirectUri
               \/ (\E j \in 1..Len(uris[i]) : uris[i][j] = "*")
                    /\ regexTest(uris[i], redirectUri)

\* The store after registerClient's storage.set.
registerClient(st, name, redirectUris, clientId, clientSecret, t) ==
  storageSet(st, ClientKey(clientId),
             Obj([clientId |-> clientId, clientSecretHash |-> hashSecret(clientSecret),
                  name |-> name, redirectUris |-> redirectUris, createdAt |-> t]),
             0, t)

\* A demo-client setup that registers anew on every call.
ensureDemoClientAnew(st, t) ==
  registerClient(st, "Demo Application", <<>>, "demo_client", "demo_secret", t)

\* The store after ensureDemoClient.
ensureDemoClient(st, t) ==
  IF getClient(st, "demo_client", t) # Null THEN st
  ELSE registerClient(st, "Demo Application", <<>>, "demo_client", "demo_secret", t)

\* The clients an operator registers: the id the wallet flow binds its codes
\* to, and a partner application.
RegisteredIds == {"wallet-auth", "partner_app"}
ClientIds == {"demo_client"} \cup RegisteredIds

SecretOf(clientId) ==
  IF clientId = "demo_client" THEN "demo_secret"
  ELSE IF clientId = "wallet-auth" THEN "wallet_secret"
  ELSE "partner_secret"

RegisterClientFor(clientIds, uriLists) ==
  \E clientId \in clientIds, redirectUris \in uriLists :
    /\ ClientKey(clientId) \notin DOMAIN store
    /\ store' = registerClient(store, "App", redirectUris, clientId, SecretOf(clientId), now)
    /\ UNCHANGED <<now, adapter, nNonces, nCodes, nStates, authz, ver, tok, pendingNonce, issuedAt, socialVars, waVars, libVars>>

RegisterClient == RegisterClientFor(RegisteredIds, {<<appCb>>})

\* A call of registerClient with a clientId of the caller's choosing,
\* whether or not that clientId is registered.
RegisterClientCall(clientIds, names, uriLists) ==
  \E clientId \in clientIds, name \in names, redirectUris \in uriLists :
    /\ store' = registerClient(store, name, redirectUris, clientId, SecretOf(clientId), now)
    /\ UNCHANGED <<now, adapter, nNonces, nCodes, nStates, authz, ver, tok, pendingNonce, issuedAt, socialVars, waVars, libVars>>

\* ensureDemoClient, one step per await.  First `await getClient`: a caller
\* that finds the demo client returns.
MaxBoot == 2           \* callers of ensureDemoClient
BootIds == 1..MaxBoot

EnsureGet(p) ==
  /\ boot[p] = "idle"
  /\ boot' = [boot EXCEPT ![p] =
       IF getClient(store, "demo_client", now) # Null THEN "done" ELSE "register"]
  /\ store' = storageAfterGet(store, ClientKey("demo_client"), now)
  /\ UNCHANGED <<now, adapter, nNonces, nCodes, nStates, authz, ver, tok, pendingNonce,
                 issuedAt, socialVars, waVars, redirectCheck, jwt, jwtChecks, userinfo,
                 uiVars, statusReq, creates>>

\* Then `await registerClient(...)` by a caller that found none.
EnsureRegister(p) ==
  /\ boot[p] = "register"
  /\ boot' = [boot EXCEPT ![p] = "done"]
  /\ store' = registerClient(store, "Demo Application", <<>>, "demo_client",
                             "demo_secret", now)
  /\ UNCHANGED <<now, adapter, nNonces, nCodes, nStates, authz, ver, tok, pendingNonce,
                 issuedAt, socialVars, waVars, redirectCheck, jwt, jwtChecks, userinfo,
                 uiVars, statusReq, creates>>

\* deleteClient: the registration is dropped.
DeleteClient ==
  \E clientId \in RegisteredIds :
    /\ ClientKey(clientId) \in DOMAIN store
    /\ store' = storageDelete(store, ClientKey(clientId))
    /\ UNCHANGED <<now, adapter, nNonces, nCodes, nStates, authz, ver, tok, pendingNonce, issuedAt, socialVars, waVars, libVars>>

\* A call of validateRedirectUri(clientId, redirectUri); registered is the
\* client's redirectUris, Null for an unknown client.
ValidateRedirectFor(clientIds) ==
  \E clientId \in clientIds, redirectUri \in TestUris :
    LET client == getClient(store, clientId, now) IN
      /\ redirectCheck' =
           Some([clientId |-> clientId, redirectUri |-> redirectUri,
                 registered |-> IF client = Null THEN Null
                                ELSE Some(client[1].data.redirectUris),
                 result |-> validateRedirectUri(store, clientId, redirectUri, now)])
      /\ store' = storageAfterGet(store, ClientKey(clientId), now)
      /\ UNCHANGED <<now, adapter, nNonces, nCodes, nStates, authz, ver, tok, pendingNonce, issuedAt, socialVars, waVars, jwt, jwtChecks, userinfo, uiVars, boot, statusReq, creates>>

ValidateRedirect == ValidateRedirectFor(RegisteredIds)

\* ------------------------------------------------------------- lib/auth
StateKey(state) == Key(STORAGE_KEYS.AUTH_STATE, state)
CodeKey(code) == Key(STORAGE_KEYS.AUTH_CODE, code)
NonceKey(nonce) == Key(STORAGE_KEYS.SIWE_NONCE, nonce)

storeAuthState(st, state, data, t) ==
  storageSet(st, StateKey(state), Obj(data), AUTH_STATE_TTL, t)

generateAuthCode(st, code, data, t) ==
  storageSet(st, CodeKey(code), Obj(data), AUTH_CODE_TTL, t)

\* ------------------------------------------------------------ /authorize
\* request is the query of the last request, Null before the first one.
NoAuthz == [status |-> 0, error |-> "", error_description |-> "", client_id |-> "",
            redirect_uri |-> <<>>, state |-> "", internalState |-> "", request |-> Null]

AuthzError(error, description) ==
  [NoAuthz EXCEPT !.status = 400, !.error = error, !.error_description = description]

\* The whole handler: ensureDemoClient, the parameter checks, storeAuthState
\* and the redirect to /connect.
AuthorizeFor(clientIds, redirectUris) ==
  \E clientId \in clientIds,
     redirectUri \in redirectUris,
     responseType \in {"code", "token"},
     state \in {"abc"} :
    LET st1 == ensureDemoClient(storageAfterGet(store, ClientKey("demo_client"), now), now)
        internalState == ToString(nStates + 1)
        request == Some([client_id |-> clientId, redirect_uri |-> redirectUri,
                         response_type |-> responseType])
        fail(e, d) == /\ authz' = [AuthzError(e, d) EXCEPT !.request = request]
                      /\ store' = st1
                      /\ UNCHANGED <<nStates, issuedAt>>
    IN
    /\ IF clientId = "" THEN fail("invalid_request", "Missing client_id parameter")
       ELSE IF redirectUri = <<>>
         THEN fail("invalid_request", "Missing redirect_uri parameter")
       ELSE IF responseType # "code"
         THEN fail("unsupported_response_type", "Only response_type=code is supported")
       ELSE IF getClient(st1, clientId, now) = Null
         THEN fail("invalid_client", "Unknown client_id")
       ELSE IF ~validateRedirectUri(st1, clientId, redirectUri, now)
         THEN fail("invalid_request", "Invalid redirect_uri for this client")
       ELSE /\ nStates < MaxStates
            /\ nStates' = nStates + 1
            /\ store' = storeAuthState(st1, internalState,
                          [clientId |-> clientId, redirectUri |-> redirectUri,
                           scope |-> "profile", originalState |-> state, createdAt |-> now],
                          now)
            /\ authz' = [NoAuthz EXCEPT !.status = 302, !.client_id = clientId,
                           !.redirect_uri = redirectUri, !.state = state,
                           !.internalState = internalState, !.request = request]
            /\ issuedAt' = Stamp(issuedAt, StateKey(internalState), now)
    /\ UNCHANGED <<now, adapter, nNonces, nCodes, ver, tok, pendingNonce, socialVars, waVars, libVars>>

Authorize == AuthorizeFor(ClientIds \cup {""}, RedirectUris \cup {<<>>})


\* --------------------------------------------------------------- /nonce
\* Lines 352-356 of the route: generateNonce() and the expiresAt timestamp.
NonceCreate ==
  /\ pendingNonce = Null
  /\ nNonces < MaxNonces
  /\ nNonces' = nNonces + 1
  /\ pendingNonce' = Some([nonce |-> ToString(nNonces + 1),
                           expiresAt |-> now + NONCE_EXPIRY_SECONDS * 1000])
  /\ UNCHANGED <<now, adapter, store, nCodes, nStates, authz, ver, tok, issuedAt, socialVars, waVars, libVars>>

\* Lines 358-369: storage.set of the JSON text of {createdAt, expiresAt}; the
\* TTL runs from the moment the adapter stores the key.
NonceStore ==
  /\ pendingNonce # Null
  /\ store' = storageSet(store, NonceKey(pendingNonce[1].nonce),
                Str([expiresAt |-> pendingNonce[1].expiresAt]),
                NONCE_EXPIRY_SECONDS, now)
  /\ pendingNonce' = Null
  /\ issuedAt' = Stamp(issuedAt, NonceKey(pendingNonce[1].nonce), now)
  /\ UNCHANGED <<now, adapter, nNonces, nCodes, nStates, authz, ver, tok, socialVars, waVars, libVars>>

\* ------------------------------------------------ reputation service
Addresses == {"0xA", "0xB"}

\* What the upstream service holds for an address.
UpstreamProfile(address) ==
  IF address = "0xA" THEN [profileId |-> 42, score |-> 1800]
  ELSE [profileId |-> 7, score |-> 999]

CacheKey(type, identifier) == Key(STORAGE_KEYS.ETHOS_CACHE, <<type, identifier>>)

\* --------------------------------------------------------- /wallet/verify
VerIds == 1..MaxVer
ExpirationTime == 200000      \* the expirationTime written in a SIWE message

IdleVer ==
  [pc |-> "idle", nonce |-> "", address |-> "", verifiedAddress |-> "",
   ethosUser |-> <<>>, status |-> 0, error |-> "", code |-> "",
   boundRedirectUri |-> <<>>, boundState |-> "", codeCreatedAt |-> 0,
   upstreamCalls |-> 0, foundLive |-> FALSE, startedAfterLive |-> FALSE]

VerDone(q, status, error) == [q EXCEPT !.pc = "done", !.status = status, !.error = error]

IssuedNonces == {ToString(i) : i \in 1..nNonces}
IssuedCodes == {ToString(i) : i \in 1..nCodes}

\* Lines 24-50: body fields, address format, parseSIWEMessage.  A body field
\* is drawn at the step that first reads it.  startedAfterLive records that
\* the request arrived after another request's storage.get had returned a
\* live record for the same nonce (foundLive).
VerStart(r) ==
  /\ ver[r].pc = "idle"
  /\ \A q \in 1..(r - 1) : ver[q].pc # "idle"     \* slots are taken in order
  /\ \E message \in {"", "garbage", "siwe"},
        addressWellFormed \in BOOLEAN,
        nonce \in IssuedNonces \cup {"bogus"} :
       ver' = [ver EXCEPT ![r] =
         IF message = ""
           THEN VerDone(@, 400, "Missing required fields: message, signature, address")
         ELSE IF ~addressWellFormed
           THEN VerDone(@, 400, "Invalid Ethereum address format")
         ELSE IF message = "garbage"
           THEN VerDone(@, 400, "Invalid SIWE message format")
         ELSE [@ EXCEPT !.pc = "get", !.nonce = nonce,
                        !.startedAfterLive =
                          \E q \in VerIds \ {r} : ver[q].nonce = nonce /\ ver[q].foundLive]]
  /\ UNCHANGED <<now, adapter, store, nNonces, nCodes, nStates, authz, tok, pendingNonce, issuedAt, socialVars, waVars, libVars>>

\* new Date(nonceData.expiresAt) < new Date(); a string has no expiresAt
\* field, and an Invalid Date compares false.
nonceExpired(nonceData, t) ==
  nonceData.type = "object" /\ nonceData.data.expiresAt < t

\* The request after lines 55-71 have looked at what storage.get returned.
verAfterGet(q, nonceData, t) ==
  IF nonceData = Null THEN VerDone(q, 400, "Invalid or expired nonce")
  ELSE IF nonceExpired(nonceData[1], t) THEN [q EXCEPT !.pc = "expired"]
  ELSE [q EXCEPT !.pc = "del", !.foundLive = TRUE]

\* Lines 52-62: storage.get(nonceKey).
VerGetNonce(r) ==
  /\ ver[r].pc = "get"
  /\ store' = storageAfterGet(store, NonceKey(ver[r].nonce), now)
  /\ ver' = [ver EXCEPT ![r] =
       verAfterGet(@, storageGet(store, NonceKey(ver[r].nonce), now), now)]
  /\ UNCHANGED <<now, adapter, nNonces, nCodes, nStates, authz, tok, pendingNonce, issuedAt, socialVars, waVars, libVars>>

\* Lines 64-71: the expired nonce is deleted.
VerDeleteExpired(r) ==
  /\ ver[r].pc = "expired"
  /\ store' = storageDelete(store, NonceKey(ver[r].nonce))
  /\ ver' = [ver EXCEPT ![r] = VerDone(@, 400, "Nonce has expired")]
  /\ UNCHANGED <<now, adapter, nNonces, nCodes, nStates, authz, tok, pendingNonce, issuedAt, socialVars, waVars, libVars>>

\* Lines 73-100: storage.delete(nonceKey), verifySIWEMessage, expirationTime.
\* verifySIWEMessage returns the address that signed the message.
VerDeleteNonce(r) ==
  /\ ver[r].pc = "del"
  /\ store' = storageDelete(store, NonceKey(ver[r].nonce))
  /\ \E signatureValid \in BOOLEAN, expirationTime \in {0, ExpirationTime},
        signer \in Addresses :
       ver' = [ver EXCEPT ![r] =
         IF ~signatureValid THEN VerDone(@, 400, "Signature verification failed")
         ELSE IF expirationTime # 0 /\ expirationTime < now
           THEN VerDone(@, 400, "SIWE message has expired")
         ELSE [@ EXCEPT !.pc = "lookup", !.verifiedAddress = signer]]
  /\ UNCHANGED <<now, adapter, nNonces, nCodes, nStates, authz, tok, pendingNonce, issuedAt, socialVars, waVars, libVars>>

\* Lines 102-117: getProfileByAddress(address) on the body's address, read
\* through the cache; upstreamCalls counts the request's fetch calls.
VerLookup(r) ==
  /\ ver[r].pc = "lookup"
  /\ \E address \in Addresses :
     LET key == CacheKey("address", address)
         cached == storageGet(store, key, now)
         st1 == storageAfterGet(store, key, now)
     IN
       IF cached # Null
         THEN /\ store' = st1
              /\ ver' = [ver EXCEPT ![r].pc = "mint", ![r].address = address,
                                    ![r].ethosUser = <<cached[1].data>>]
         ELSE \E upstream \in {"ok", "notfound", "error"} :
                IF upstream = "ok"
                  THEN /\ store' = storageSet(st1, key, Obj(UpstreamProfile(address)),
                                              ETHOS_CACHE_TTL, now)
                       /\ ver' = [ver EXCEPT ![r].pc = "mint", ![r].address = address,
                                    ![r].ethosUser = <<UpstreamProfile(address)>>,
                                    ![r].upstreamCalls = 1]
                ELSE IF upstream = "notfound"
                  THEN /\ store' = st1
                       /\ ver' = [ver EXCEPT ![r] =
                                    VerDone([@ EXCEPT !.address = address,
                                                      !.upstreamCalls = 1],
                                            404, "no_ethos_profile")]
                ELSE /\ store' = st1
                     /\ ver' = [ver EXCEPT ![r] =
                                  VerDone([@ EXCEPT !.address = address,
                                                    !.upstreamCalls = 1],
                                          500, "Internal server error")]
  /\ UNCHANGED <<now, adapter, nNonces, nCodes, nStates, authz, tok, pendingNonce, issuedAt, socialVars, waVars, libVars>>

\* What /wallet/verify binds the code to (lines 119-129).
walletCodeData(q, redirect_uri, state, t) ==
  [clientId |-> "wallet-auth", redirectUri |-> redirect_uri, scope |-> "profile",
   state |-> state, authMethod |-> "wallet", ethosUser |-> q.ethosUser[1],
   walletAddress |-> q.verifiedAddress, createdAt |-> t]

\* Lines 119-147: generateAuthCode and the response.
VerMint(r) ==
  /\ ver[r].pc = "mint"
  /\ nCodes < MaxCodes
  /\ \E redirect_uri \in {<<>>} \cup RedirectUris, state \in {"abc"} :
       LET code == ToString(nCodes + 1) IN
         /\ store' = generateAuthCode(store, code,
                                      walletCodeData(ver[r], redirect_uri, state, now), now)
         /\ ver' = [ver EXCEPT ![r] =
              [VerDone(@, 200, "") EXCEPT !.code = code, !.boundRedirectUri = redirect_uri,
                                          !.boundState = state, !.codeCreatedAt = now]]
  /\ nCodes' = nCodes + 1
  /\ issuedAt' = Stamp(issuedAt, CodeKey(ToString(nCodes + 1)), now)
  /\ UNCHANGED <<now, adapter, nNonces, nStates, authz, tok, pendingNonce, socialVars, waVars, libVars>>

VerStep(r) ==
  \/ VerStart(r) \/ VerGetNonce(r) \/ VerDeleteExpired(r)
  \/ VerDeleteNonce(r) \/ VerLookup(r) \/ VerMint(r)

\* ---------------------------------------------------------------- /token
TokIds == 1..MaxTok

IdleTok ==
  [pc |-> "idle", code |-> "", client_id |-> "", redirect_uri |-> <<>>,
   authCodeData |-> <<>>, status |-> 0, error |-> "", description |-> "",
   access_token |-> <<>>, expires_in |-> 0]

TokDone(q, status, error, description) ==
  [q EXCEPT !.pc = "done", !.status = status, !.error = error, !.description = description]

\* The claims of the JWT signed by generateAccessToken; iat and exp are in
\* seconds.
generateAccessToken(ethosUser, authMethod, walletAddress, clientId, scope, t) ==
  [sub |-> ethosUser.profileId, ethos_profile_id |-> ethosUser.profileId,
   ethos_score |-> ethosUser.score, auth_method |-> authMethod,
   wallet_address |-> walletAddress, client_id |-> clientId, scope |-> scope,
   iss |-> JWT_ISSUER, aud |-> clientId, iat |-> t \div 1000,
   exp |-> t \div 1000 + JWT_EXPIRY]

\* A verification that does not look at exp.
jwtVerifyForever(token, issuer, audience, t) ==
  IF token.iss # issuer THEN Null
  ELSE IF audience # "" /\ token.aud # audience THEN Null
  ELSE Some(token)

\* jwtVerify on a token signed with JWT_SECRET: the issuer, the audience
\* when one is given, and exp against the clock in seconds.  Null stands
\* for the error it throws.
jwtVerify(token, issuer, audience, t) ==
  IF token.iss # issuer THEN Null
  ELSE IF audience # "" /\ token.aud # audience THEN Null
  ELSE IF token.exp <= t \div 1000 THEN Null
  ELSE Some(token)

\* verifyAccessToken(token, clientId?); clientId "" is the omitted argument.
verifyAccessToken(token, clientId, t) == jwtVerify(token, JWT_ISSUER, clientId, t)

\* generateAccessToken called for a profile and a client.
IssueAccessToken ==
  /\ jwt = Null
  /\ \E address \in Addresses, clientId \in ClientIds :
       jwt' = Some([token |-> generateAccessToken(UpstreamProfile(address), "wallet",
                                                  address, clientId, "profile", now),
                    ethosUser |-> UpstreamProfile(address), clientId |-> clientId,
                    issuedAt |-> now])
  /\ UNCHANGED <<coreVars, socialVars, waVars, redirectCheck, jwtChecks, userinfo, uiVars, boot, statusReq, creates>>

\* verifyAccessToken called on the token, as /userinfo does without a
\* clientId, or with one.
VerifyAccessToken ==
  /\ jwt # Null
  /\ Len(jwtChecks) < MaxJwtChecks
  /\ \E clientId \in {""} \cup ClientIds :
       jwtChecks' = Append(jwtChecks,
         [clientId |-> clientId, at |-> now,
          payload |-> verifyAccessToken(jwt[1].token, clientId, now)])
  /\ UNCHANGED <<coreVars, socialVars, waVars, redirectCheck, jwt, userinfo, uiVars, boot, statusReq, creates>>

\* The message of the error jwtVerify throws: a text that is not a compact
\* JWS, a signature made with another key, then the claim checks.  "" when
\* it returns the payload.
jwtVerifyMessage(presented, token, issuer, audience, t) ==
  IF presented = "malformed" THEN "Invalid Compact JWS"
  ELSE IF presented = "forged" THEN "signature verification failed"
  ELSE IF token.iss # issuer THEN "unexpected iss claim value"
  ELSE IF audience # "" /\ token.aud # audience THEN "unexpected aud claim value"
  ELSE IF token.exp <= t \div 1000 THEN "exp claim timestamp check failed"
  ELSE ""

\* The message of the Error verifyAccessToken throws:
\* `Invalid access token: ${error.message}`.
verifyAccessTokenMessage(presented, token, clientId, t) ==
  <<"Invalid access token: ", jwtVerifyMessage(presented, token, JWT_ISSUER, clientId, t)>>

\* /userinfo: extractBearerToken, verifyAccessToken(token), and the 401
\* whose error_description is the caught error's message.  presented is
\* what the Authorization header carries.
UserInfo ==
  /\ jwt # Null
  /\ Len(userinfo) < MaxUserInfo
  /\ \E presented \in {"none", "issued", "forged", "malformed"} :
       userinfo' = Append(userinfo,
         IF presented = "none"
           THEN [presented |-> presented, status |-> 401, error |-> "invalid_token",
                 error_description |-> <<"Missing or invalid Authorization header">>,
                 payload |-> Null]
         ELSE IF jwtVerifyMessage(presented, jwt[1].token, JWT_ISSUER, "", now) # ""
           THEN [presented |-> presented, status |-> 401, error |-> "invalid_token",
                 error_description |->
                   verifyAccessTokenMessage(presented, jwt[1].token, "", now),
                 payload |-> Null]
         ELSE [presented |-> presented, status |-> 200, error |-> "",
               error_description |-> <<>>,
               payload |-> verifyAccessToken(jwt[1].token, "", now)])
  /\ UNCHANGED <<coreVars, socialVars, waVars, redirectCheck, jwt, jwtChecks, uiVars, boot, statusReq, creates>>

\* Lines 29-74: body, grant type, required parameters, validateClient.
TokStart(t) ==
  /\ tok[t].pc = "idle"
  /\ \A q \in 1..(t - 1) : tok[q].pc # "idle"     \* slots are taken in order
  /\ \E grant_type \in {"authorization_code", "password"},
        code \in IssuedCodes \cup {"", "bogus"},
        client_id \in ClientIds \cup {""},
        client_secret \in {SecretOf(c) : c \in ClientIds} \cup {""} :
       tok' = [tok EXCEPT ![t] =
         IF grant_type # "authorization_code"
           THEN TokDone(@, 400, "unsupported_grant_type",
                        "Only authorization_code grant is supported")
         ELSE IF code = ""
           THEN TokDone(@, 400, "invalid_request", "Missing code parameter")
         ELSE IF client_id = "" \/ client_secret = ""
           THEN TokDone(@, 401, "invalid_client", "Missing client credentials")
         ELSE IF validateClient(store, client_id, client_secret, now) = Null
           THEN TokDone(@, 401, "invalid_client", "Invalid client credentials")
         ELSE [@ EXCEPT !.pc = "get", !.code = code, !.client_id = client_id]]
  /\ UNCHANGED <<now, adapter, store, nNonces, nCodes, nStates, authz, ver, pendingNonce, issuedAt, socialVars, waVars, libVars>>

\* The request after getAuthCode's storage.get returned data (lines 77-83).
tokAfterGet(q, data) ==
  IF data = Null
    THEN TokDone(q, 400, "invalid_grant", "Invalid or expired authorization code")
    ELSE [q EXCEPT !.pc = "del", !.authCodeData = <<data[1].data>>]

\* getAuthCode, first half: storage.get(key).
TokGetCode(t) ==
  /\ tok[t].pc = "get"
  /\ store' = storageAfterGet(store, CodeKey(tok[t].code), now)
  /\ tok' = [tok EXCEPT ![t] = tokAfterGet(@, storageGet(store, CodeKey(tok[t].code), now))]
  /\ UNCHANGED <<now, adapter, nNonces, nCodes, nStates, authz, ver, pendingNonce, issuedAt, socialVars, waVars, libVars>>

\* A getAuthCode that forgets to delete the key.
getAuthCodeKeep(st, code) == st

\* The store after getAuthCode's second half: storage.delete(key) when the
\* get returned data.
getAuthCodeDelete(st, code) == storageDelete(st, CodeKey(code))

\* A token endpoint that skips the client binding check.
clientMatchesAny(authCodeData, client_id) == TRUE

\* The binding checks of lines 85-99 on the data getAuthCode returned.
clientMatches(authCodeData, client_id) == authCodeData.clientId = client_id

redirectMatches(authCodeData, redirect_uri) ==
  ~(redirect_uri # <<>> /\ authCodeData.redirectUri # redirect_uri)

\* getAuthCode's delete, then lines 85-116.
TokDeleteAndFinish(t) ==
  /\ tok[t].pc = "del"
  /\ store' = getAuthCodeDelete(store, tok[t].code)
  /\ \E redirect_uri \in {<<>>} \cup RedirectUris :
       LET data == tok[t].authCodeData[1] IN
       tok' = [tok EXCEPT ![t] =
         IF ~clientMatches(data, tok[t].client_id)
           THEN [TokDone(@, 400, "invalid_grant",
                         "Authorization code was not issued to this client")
                   EXCEPT !.redirect_uri = redirect_uri]
         ELSE IF ~redirectMatches(data, redirect_uri)
           THEN [TokDone(@, 400, "invalid_grant", "Redirect URI mismatch")
                   EXCEPT !.redirect_uri = redirect_uri]
         ELSE [TokDone(@, 200, "", "") EXCEPT
                 !.redirect_uri = redirect_uri,
                 !.access_token = <<generateAccessToken(data.ethosUser, data.authMethod,
                                      data.walletAddress, tok[t].client_id, data.scope, now)>>,
                 !.expires_in = TOKEN_EXPIRES_IN]]
  /\ UNCHANGED <<now, adapter, nNonces, nCodes, nStates, authz, ver, pendingNonce, issuedAt, socialVars, waVars, libVars>>

TokStep(t) == TokStart(t) \/ TokGetCode(t) \/ TokDeleteAndFinish(t)

\* ------------------------------------------------- social-provider flows
MaxCallbacks == 1      \* social callbacks recorded
MaxExchanges == 2      \* social token exchanges recorded

SOCIAL_EXPIRES_IN == 86400
OAUTH_SESSION_MAX_AGE == 600
TELEGRAM_AUTH_MAX_AGE == 86400

\* JS values a min score can take.
Undefined == [kind |-> "undefined", value |-> 0]
NaN == [kind |-> "nan", value |-> 0]
JsNull == [kind |-> "null", value |-> 0]
Num(n) == [kind |-> "number", value |-> n]

\* A query parameter is the sequence of its characters; <<>> is an absent
\* or empty parameter.
DigitValue ==
  "0" :> 0 @@ "1" :> 1 @@ "2" :> 2 @@ "3" :> 3 @@ "4" :> 4 @@
  "5" :> 5 @@ "6" :> 6 @@ "7" :> 7 @@ "8" :> 8 @@ "9" :> 9

RECURSIVE parseDigits(_, _)
parseDigits(text, acc) ==
  IF text = <<>> \/ Head(text) \notin DOMAIN DigitValue THEN acc
  ELSE parseDigits(Tail(text), acc * 10 + DigitValue[Head(text)])

\* parseInt(text): the leading digits, NaN when there are none.
parseInt(text) ==
  IF text = <<>> \/ Head(text) \notin DOMAIN DigitValue THEN NaN
  ELSE Num(parseDigits(text, 0))

\* minScore ? parseInt(minScore) : undefined
parseMinScore(min_score) == IF min_score = <<>> THEN Undefined ELSE parseInt(min_score)

\* A value after JSON.stringify and JSON.parse as an object's field: NaN is
\* written as null, an undefined field is left out.
jsonField(v) == IF v.kind = "nan" THEN JsNull ELSE v

MinScoreTexts == {<<>>, <<"0">>, <<"1", "0", "0", "0">>, <<"x">>}
Scores == {999, 1000}
SessionProviders == {"twitter", "discord", "farcaster"}

\* A gate that compares with <= in place of <.
jsLessOrEqual(score, minScore) ==
  IF minScore.kind = "number" THEN score <= minScore.value
  ELSE IF minScore.kind = "null" THEN score <= 0
  ELSE FALSE

\* score < minScore in JS: null converts to 0, undefined and NaN to NaN.
jsLess(score, minScore) ==
  IF minScore.kind = "number" THEN score < minScore.value
  ELSE IF minScore.kind = "null" THEN score < 0
  ELSE FALSE

\* A value used as an if condition.
truthy(v) == v.kind = "number" /\ v.value # 0

\* The score gates: twitter, discord and telegram test !== undefined,
\* farcaster tests the min score itself.
scoreTooLow(provider, minScore, score) ==
  IF provider = "farcaster" THEN truthy(minScore) /\ jsLess(score, minScore)
  ELSE minScore.kind # "undefined" /\ jsLess(score, minScore)

\* Buffer.from(JSON.stringify(payload)).toString('base64url') and back.
base64urlJson(payload) == <<"base64url", payload>>

decodeAuthCode(code) ==
  IF Len(code) = 2 /\ code[1] = "base64url" THEN Some(code[2]) ELSE Null

\* The JWT and the code a callback builds from the resolved profile.
socialAccessToken(provider, score, t) ==
  [ethos_score |-> score, auth_method |-> provider, iat |-> t,
   exp |-> t + SOCIAL_EXPIRES_IN * 1000]

socialAuthCode(provider, score, t) ==
  base64urlJson([accessToken |-> Some(socialAccessToken(provider, score, t)),
                 expiresIn |-> SOCIAL_EXPIRES_IN,
                 user |-> Some([ethosScore |-> score, authMethod |-> provider])])

\* /auth/{twitter,discord,farcaster}: redirect_uri is required, then the
\* session cookie is set.
SocialAuthorizeFor(providers, redirectUris) ==
  /\ \E provider \in providers, redirect_uri \in redirectUris,
        min_score \in MinScoreTexts :
       IF redirect_uri = <<>> THEN UNCHANGED session
       ELSE session' = Some([provider |-> provider, redirectUri |-> redirect_uri,
                             state |-> "s1",
                             minScore |-> jsonField(parseMinScore(min_score)),
                             expires |-> now + OAUTH_SESSION_MAX_AGE * 1000])
  /\ UNCHANGED <<coreVars, callbacks, exchanges, waVars, libVars>>

SocialAuthorize == SocialAuthorizeFor(SessionProviders, SocialRedirectUris \cup {<<>>})

\* profile is Null or <<score>>, code is Null or <<code>>; redirectedTo is
\* Null for a JSON error response.  state is the request's state parameter
\* (Null where the handler reads none), providerCalls the number of fetches
\* made to the OAuth provider and upstream the status of the identity lookup
\* (0 when none was made).  error_description is the description as the
\* sequence of the pieces it is concatenated from (recorded by the twitter
\* and discord callbacks).
CallbackResponse(provider, minScore, profile, error, code) ==
  [provider |-> provider, minScore |-> minScore, profile |-> profile, error |-> error,
   code |-> code, redirectedTo |-> Null, upstream |-> 0, state |-> Null,
   providerCalls |-> 0, error_description |-> <<>>]

\* The response as a redirect to redirectUri carrying its code or error.
redirectTo(redirectUri, response) == [response EXCEPT !.redirectedTo = Some(redirectUri)]

\* The steps every callback takes once the provider account is known:
\* lookupEthosProfile, the score gate, the JWT and the code.
resolveAndGate(provider, minScore, profile) ==
  IF profile = Null
    THEN CallbackResponse(provider, minScore, Null, "no_ethos_profile", Null)
  ELSE IF scoreTooLow(provider, minScore, profile[1])
    THEN CallbackResponse(provider, minScore, profile, "score_too_low", Null)
  ELSE CallbackResponse(provider, minScore, profile, "",
                        Some(socialAuthCode(provider, profile[1], now)))

Profiles == {Null} \cup {Some(v) : v \in Scores}

\* What the reputation service answers a callback's lookup with: a profile,
\* 404, or a failure (5xx, or fetch throwing).  After a 404 on the account
\* id the lookup asks once more by username; the answer is the last one.
Upstreams ==
  {[status |-> 200, score |-> v] : v \in Scores}
    \cup {[status |-> 404, score |-> 0], [status |-> 500, score |-> 0]}

\* lookupEthosProfile: the profile when the response is ok, null otherwise
\* and when fetch throws.
lookupEthosProfile(upstream) ==
  IF upstream.status = 200 THEN Some(upstream.score) ELSE Null

\* The response of a callback that called lookupEthosProfile.
lookedUp(upstream, response) == [response EXCEPT !.upstream = upstream.status]

\* The browser sends the cookie while it has not run out.
cookiePresent == session # Null /\ now < session[1].expires

\* The response of a callback that read the state parameter.
withState(state, response) == [response EXCEPT !.state = Some(state)]

\* The response of a callback that made n fetches to the OAuth provider.
fetched(n, response) == [response EXCEPT !.providerCalls = n]

\* A state check that lets every state through.
stateMatchesAny(state, sessionState) == FALSE

\* `state !== session.state`.
stateMismatch(state, sessionState) == state # sessionState

\* The body of the provider's answer to a refused token exchange.
providerErrorBody == "provider-error-body"

\* The description redirectWithError is called with, by provider and error.
errorDescription(provider, error) ==
  IF error = "" THEN <<>>
  ELSE IF error = "invalid_state" THEN <<"State mismatch">>
  ELSE IF error = "invalid_request" THEN <<"No authorization code">>
  ELSE IF error = "token_error"
    THEN IF provider = "twitter"
           THEN <<"Failed to exchange code: ", providerErrorBody>>
           ELSE <<"Failed to exchange code">>
  ELSE IF error = "user_fetch_error" THEN <<"Failed to fetch user info">>
  ELSE IF error = "no_ethos_profile" THEN <<"No Ethos profile linked to this account">>
  ELSE IF error = "score_too_low" THEN <<"Your Ethos score is below the minimum required">>
  ELSE IF error = "server_error" THEN <<"Internal server error">>
  ELSE <<"OAuth error">>

\* The response with the description of its error.
described(response) ==
  [response EXCEPT !.error_description = errorDescription(response.provider, response.error)]

\* What the OAuth provider answers the callback's two fetches with.
ProviderOutcomes == {"ok", "token_error", "user_fetch_error"}

\* /auth/{twitter,discord}/callback.  error and code are the provider's
\* query parameters ("" when absent).
OAuthCallback(provider) ==
  /\ Len(callbacks) < MaxCallbacks
  /\ \E state \in {"s1", "forged"}, error \in {"", "access_denied"},
        code \in {"", "c1"}, outcome \in ProviderOutcomes, upstream \in Upstreams :
       IF ~cookiePresent
         THEN /\ callbacks' = Append(callbacks, withState(state,
                   CallbackResponse(provider, Undefined, Null, "invalid_session", Null)))
              /\ UNCHANGED session
       ELSE /\ session' = Null
            /\ callbacks' = Append(callbacks,
                 described(withState(state, redirectTo(session[1].redirectUri,
                   IF stateMismatch(state, session[1].state)
                     THEN CallbackResponse(provider, session[1].minScore, Null,
                                           "invalid_state", Null)
                   ELSE IF error # ""
                     THEN CallbackResponse(provider, session[1].minScore, Null, error, Null)
                   ELSE IF code = ""
                     THEN CallbackResponse(provider, session[1].minScore, Null,
                                           "invalid_request", Null)
                   ELSE IF outcome = "token_error"
                     THEN fetched(1, CallbackResponse(provider, session[1].minScore, Null,
                                                      "token_error", Null))
                   ELSE IF outcome = "user_fetch_error"
                     THEN fetched(2, CallbackResponse(provider, session[1].minScore, Null,
                                                      "user_fetch_error", Null))
                   ELSE fetched(2, lookedUp(upstream,
                          resolveAndGate(provider, session[1].minScore,
                                         lookupEthosProfile(upstream))))))))
  /\ UNCHANGED <<coreVars, exchanges, waVars, libVars>>

\* /auth/farcaster/callback (POST).
FarcasterCallback ==
  /\ Len(callbacks) < MaxCallbacks
  /\ \E fidPresent \in BOOLEAN, upstream \in Upstreams :
       IF ~cookiePresent
         THEN /\ callbacks' = Append(callbacks,
                   CallbackResponse("farcaster", Undefined, Null, "invalid_session", Null))
              /\ UNCHANGED session
       ELSE IF session[1].provider # "farcaster"
         THEN /\ callbacks' = Append(callbacks,
                   CallbackResponse("farcaster", session[1].minScore, Null,
                                    "invalid_session", Null))
              /\ UNCHANGED session
       ELSE IF ~fidPresent
         THEN /\ callbacks' = Append(callbacks,
                   CallbackResponse("farcaster", session[1].minScore, Null,
                                    "invalid_request", Null))
              /\ UNCHANGED session
       ELSE /\ session' = Null
            /\ callbacks' = Append(callbacks, redirectTo(session[1].redirectUri,
                 lookedUp(upstream,
                   resolveAndGate("farcaster", session[1].minScore,
                                  lookupEthosProfile(upstream)))))
  /\ UNCHANGED <<coreVars, exchanges, waVars, libVars>>

\* /auth/telegram/callback: redirect_uri and min_score come with the request.
TelegramCallback ==
  /\ Len(callbacks) < MaxCallbacks
  /\ \E redirect_uri \in SocialRedirectUris \cup {<<>>},
        min_score \in MinScoreTexts, authValid \in BOOLEAN,
        authAge \in {0, TELEGRAM_AUTH_MAX_AGE + 1}, upstream \in Upstreams :
       callbacks' = Append(callbacks,
         IF redirect_uri = <<>>
           THEN CallbackResponse("telegram", parseMinScore(min_score), Null,
                                 "invalid_request", Null)
         ELSE redirectTo(redirect_uri,
           IF ~authValid
             THEN CallbackResponse("telegram", parseMinScore(min_score), Null,
                                   "invalid_auth", Null)
           ELSE IF authAge > TELEGRAM_AUTH_MAX_AGE
             THEN CallbackResponse("telegram", parseMinScore(min_score), Null,
                                   "auth_expired", Null)
           ELSE lookedUp(upstream,
                  resolveAndGate("telegram", parseMinScore(min_score),
                                 lookupEthosProfile(upstream)))))
  /\ UNCHANGED <<coreVars, session, exchanges, waVars, libVars>>

DeliveredCodes == {callbacks[i].code[1] : i \in {j \in 1..Len(callbacks) : callbacks[j].code # Null}}

\* A code that decodes to an object without accessToken.
incompleteCode == base64urlJson([accessToken |-> Null, expiresIn |-> 0, user |-> Null])

\* /api/auth/token, the social token exchange.
SocialToken ==
  /\ Len(exchanges) < MaxExchanges
  /\ \E grant_type \in {"authorization_code", "password"},
        code \in DeliveredCodes \cup {<<>>, <<"garbage">>, incompleteCode} :
       LET authData == decodeAuthCode(code)
           respond(status, error, token, expires_in) ==
             exchanges' = Append(exchanges,
               [code |-> code, at |-> now, status |-> status, error |-> error,
                access_token |-> token, expires_in |-> expires_in])
       IN
         IF grant_type # "authorization_code"
           THEN respond(400, "unsupported_grant_type", Null, 0)
         ELSE IF code = <<>> THEN respond(400, "invalid_request", Null, 0)
         ELSE IF authData = Null THEN respond(400, "invalid_grant", Null, 0)
         ELSE IF authData[1].accessToken = Null \/ authData[1].user = Null
           THEN respond(400, "invalid_grant", Null, 0)
         ELSE respond(200, "", authData[1].accessToken,
                      IF authData[1].expiresIn # 0 THEN authData[1].expiresIn
                      ELSE SOCIAL_EXPIRES_IN)
  /\ UNCHANGED <<coreVars, session, callbacks, waVars, libVars>>

\* ------------------------------------------- WebAuthn challenge store
MaxChallenges == 2     \* challenges issued
MaxCounterChallenges == 3  \* challenges issued where the counter is followed
MaxCons == 3           \* concurrent WebAuthn verify requests
MaxSignCount == 2      \* highest signature counter an authenticator presents

CHALLENGE_TTL_SECONDS == 300
CHALLENGE_TIMEOUT_MS == 120000
PASSKEY_FALLBACK_SCORE == 1200

CHALLENGE_PREFIX == "webauthn:challenge:"
ChallengeKey(value) == Key(CHALLENGE_PREFIX, value)

\* Math.ceil(a / b)
Ceil(a, b) == 0 - ((0 - a) \div b)

\* RedisChallengeStore.store: setex(key, ttl, JSON.stringify(challenge)).
challengeStoreStore(ch, challenge, t) ==
  LET key == ChallengeKey(challenge.challenge)
      ttl == Ceil(challenge.expiresAt - t, 1000)
      seconds == IF ttl > 0 THEN ttl ELSE CHALLENGE_TTL_SECONDS
  IN [k \in DOMAIN ch \cup {key} |->
        IF k = key THEN [value |-> Str(challenge), expireAt |-> t + seconds * 1000]
        ELSE ch[k]]

\* Redis drops a key when its setex time has run out.
PurgeChallenges(ch, t) == [k \in {x \in DOMAIN ch : t < ch[x].expireAt} |-> ch[k]]

\* The Lua script of consume, run by Redis as one command: what GET
\* returns, and the key space after the DEL.
luaGet(ch, key, t) ==
  IF key \in DOMAIN ch /\ t < ch[key].expireAt THEN Some(ch[key].value) ELSE Null

\* A script that leaves the key in place.
luaKeep(ch, key) == ch

luaDel(ch, key) == Without(ch, key)

\* consume after the script returned: JSON.parse and the expiresAt check.
consumeResult(result, t) ==
  IF result = Null THEN Null
  ELSE IF t > result[1].data.expiresAt THEN Null
  ELSE Some(result[1].data)

IssuedChallenges == {ToString(i) : i \in 1..nChal}

\* createRegistrationChallenge / createAuthenticationChallenge with a
\* timeout of two minutes.
newChallenge(type, t) ==
  [challenge |-> ToString(nChal + 1), type |-> type,
   expiresAt |-> t + CHALLENGE_TIMEOUT_MS]

\* The options handlers: a new challenge of the given type is stored, as
\* long as fewer than maxChallenges were issued.
ChallengeOptions(type, maxChallenges) ==
  /\ nChal < maxChallenges
  /\ nChal' = nChal + 1
  /\ chal' = challengeStoreStore(chal, newChallenge(type, now), now)
  /\ issuedAt' = Stamp(issuedAt, ChallengeKey(ToString(nChal + 1)), now)
  /\ UNCHANGED <<now, adapter, store, nNonces, nCodes, nStates, authz, ver, tok,
                 pendingNonce, socialVars, cons, credentials, userCredentials, libVars>>

\* /webauthn/register/options
RegisterOptions == ChallengeOptions("registration", MaxChallenges)

\* /webauthn/authenticate/options
AuthenticateOptions == ChallengeOptions("authentication", MaxChallenges)

ConsIds == 1..MaxCons

\* The credential store: credentialId -> StoredCredential, of which the
\* counter is kept.
CredentialIds == {"cred1"}
SignCounts == 0..MaxSignCount

findById(creds, credentialId) ==
  IF credentialId \in DOMAIN creds THEN Some(creds[credentialId]) ELSE Null

UserIds == {"ethos_1", "ethos_2"}
RegisterUserIds == {"ethos_1"}     \* userId of the register/verify requests

\* redis.set of create: the credential of a fresh authenticator, owned by
\* userId, written over whatever the key held.
credentialCreate(creds, credentialId, userId) ==
  [k \in DOMAIN creds \cup {credentialId} |->
     IF k = credentialId THEN [counter |-> 0, userId |-> userId] ELSE creds[k]]

\* redis.sadd of create: the id joins the set of userId.
sadd(sets, userId, credentialId) ==
  [sets EXCEPT ![userId] = @ \cup {credentialId}]

\* update: { ...existing, counter }.
credentialUpdate(creds, credentialId, counter) ==
  [creds EXCEPT ![credentialId] = [@ EXCEPT !.counter = counter]]

\* verifyAuthentication of the providers package: the assertion's signature
\* holds and its signature counter is above the counter of the stored
\* credential handed in (or both are zero).
verifyAuthentication(signatureValid, signCount, storedCounter) ==
  /\ signatureValid
  /\ signCount > storedCounter \/ (signCount = 0 /\ storedCounter = 0)

IdleCons ==
  [pc |-> "idle", kind |-> "", challenge |-> "", result |-> Null, received |-> Null,
   status |-> 0, error |-> "", profile |-> Null, code |-> Null,
   credentialId |-> "", storedCredential |-> Null, newCounter |-> 0]

ConsDone(q, status, error) == [q EXCEPT !.pc = "done", !.status = status, !.error = error]

\* /webauthn/register/verify and /webauthn/authenticate/verify up to the
\* call of challengeStore.consume.
ConsStart(c) ==
  /\ cons[c].pc = "idle"
  /\ \A q \in 1..(c - 1) : cons[q].pc # "idle"     \* slots are taken in order
  /\ \E kind \in {"register", "authenticate"}, fieldsPresent \in BOOLEAN,
        credentialId \in CredentialIds, challenge \in IssuedChallenges \cup {"bogus"} :
       cons' = [cons EXCEPT ![c] =
         IF ~fieldsPresent
           THEN ConsDone([@ EXCEPT !.kind = kind], 400,
                         IF kind = "register" THEN "Credential and userId are required"
                         ELSE "Credential and sessionId are required")
         ELSE IF kind = "authenticate" /\ findById(credentials, credentialId) = Null
           THEN ConsDone([@ EXCEPT !.kind = kind, !.credentialId = credentialId], 400,
                         "Credential not found. Please register a passkey first.")
         ELSE [@ EXCEPT !.pc = "eval", !.kind = kind, !.challenge = challenge,
                        !.credentialId = credentialId,
                        !.storedCredential = IF kind = "authenticate"
                                               THEN findById(credentials, credentialId)
                                               ELSE Null]]
  /\ UNCHANGED <<coreVars, socialVars, chal, nChal, credentials, userCredentials, libVars>>

\* consume: redis.eval of the script.
ConsEval(c) ==
  /\ cons[c].pc = "eval"
  /\ LET key == ChallengeKey(cons[c].challenge) IN
       /\ cons' = [cons EXCEPT ![c].pc = "check", ![c].result = luaGet(chal, key, now)]
       /\ chal' = luaDel(chal, key)
  /\ UNCHANGED <<coreVars, socialVars, nChal, credentials, userCredentials, libVars>>

\* /webauthn/authenticate/verify after verifyAuthentication succeeded:
\* getProfileById inside try/catch, then the code built from
\* ethosProfile?.score ?? 1200.  profile is Null when the lookup threw.
passkeyAuthCode(profile) ==
  base64urlJson([accessToken |-> Null, expiresIn |-> 0,
                 user |-> Some([ethosScore |-> IF profile = Null THEN PASSKEY_FALLBACK_SCORE
                                               ELSE profile[1],
                                authMethod |-> "passkey"])])

\* consume's return value, then the handler's verification.  A verified
\* registration creates the credential and answers; a verified
\* authentication goes on to credentialStore.update.
ConsCheck(c) ==
  /\ cons[c].pc = "check"
  /\ LET received == consumeResult(cons[c].result, now)
         id == cons[c].credentialId IN
       \E signatureValid \in BOOLEAN, signCount \in SignCounts :
         IF received = Null
           THEN /\ cons' = [cons EXCEPT ![c] =
                              ConsDone(@, 400, "Challenge not found or expired")]
                /\ UNCHANGED <<credentials, userCredentials>>
         ELSE IF cons[c].kind = "register"
           THEN IF ~signatureValid
                  THEN /\ cons' = [cons EXCEPT ![c] =
                                     ConsDone([@ EXCEPT !.received = received], 400,
                                              "Verification failed")]
                       /\ UNCHANGED <<credentials, userCredentials>>
                ELSE IF id \in DOMAIN credentials
                  THEN /\ cons' = [cons EXCEPT ![c] =
                                     ConsDone([@ EXCEPT !.received = received], 500,
                                              "Failed to verify registration")]
                       /\ UNCHANGED <<credentials, userCredentials>>
                ELSE /\ cons' = [cons EXCEPT ![c] =
                                   ConsDone([@ EXCEPT !.received = received], 200, "")]
                     /\ \E userId \in RegisterUserIds :
                          /\ credentials' = credentialCreate(credentials, id, userId)
                          /\ userCredentials' = sadd(userCredentials, userId, id)
         ELSE IF ~verifyAuthentication(signatureValid, signCount,
                                       cons[c].storedCredential[1].counter)
           THEN /\ cons' = [cons EXCEPT ![c] =
                              ConsDone([@ EXCEPT !.received = received], 400,
                                       "Authentication failed")]
                /\ UNCHANGED <<credentials, userCredentials>>
         ELSE /\ cons' = [cons EXCEPT ![c].pc = "update", ![c].received = received,
                                      ![c].newCounter = signCount]
              /\ UNCHANGED <<credentials, userCredentials>>
  /\ UNCHANGED <<coreVars, socialVars, chal, nChal, libVars>>

\* credentialStore.update with the new counter, then getProfileById inside
\* try/catch and the code.
ConsUpdate(c) ==
  /\ cons[c].pc = "update"
  /\ credentials' = credentialUpdate(credentials, cons[c].credentialId, cons[c].newCounter)
  /\ \E profile \in Profiles :
       cons' = [cons EXCEPT ![c] =
         ConsDone([@ EXCEPT !.profile = profile,
                            !.code = Some(passkeyAuthCode(profile))], 200, "")]
  /\ UNCHANGED <<coreVars, socialVars, chal, nChal, userCredentials, libVars>>

ConsStep(c) == ConsStart(c) \/ ConsEval(c) \/ ConsCheck(c) \/ ConsUpdate(c)

\* ------------------------------------------------- QR-relay polling loops
MaxPagePolls == 61     \* status fetches of the sign-in page that are followed

maxAttempts == 60

\* What one status fetch brings back: the relay's state, or "failed" for a
\* response that is not ok and for a fetch that throws.
PollOutcomes == {"pending", "completed", "error", "expired", "failed"}

\* The modal before handleFarcaster: no loop, no timer.
IdleModal ==
  [view |-> "select", attempts |-> 0, polls |-> 0, timer |-> FALSE, error |-> ""]

\* poll() of pollFarcasterChannel: at maxAttempts the error view; otherwise
\* one fetch of /api/auth/farcaster/status and, while the channel is
\* pending or the fetch failed, attempts++ and setTimeout(poll, 2000).
poll(m, outcome) ==
  IF m.attempts >= maxAttempts
    THEN [m EXCEPT !.view = "error", !.timer = FALSE,
                   !.error = "Session expired. Please try again."]
  ELSE IF outcome = "completed"
    THEN [m EXCEPT !.view = "success", !.timer = FALSE, !.polls = @ + 1]
  ELSE IF outcome = "expired"
    THEN [m EXCEPT !.view = "error", !.timer = FALSE, !.polls = @ + 1,
                   !.error = "Session expired. Please try again."]
  ELSE IF outcome = "error"
    THEN [m EXCEPT !.view = "error", !.timer = FALSE, !.polls = @ + 1,
                   !.error = "Sign in failed."]
  ELSE [m EXCEPT !.attempts = @ + 1, !.timer = TRUE, !.polls = @ + 1]

\* handleFarcaster with a channel created: pollFarcasterChannel runs poll()
\* at once.
ModalStart ==
  /\ modal.view = "select"
  /\ \E outcome \in PollOutcomes :
       modal' = poll([modal EXCEPT !.view = "farcaster-qr"], outcome)
  /\ UNCHANGED <<coreVars, socialVars, waVars, redirectCheck, jwt, jwtChecks, userinfo, page, boot, statusReq, creates>>

\* The timer set by setTimeout(poll, 2000) fires.
ModalTimer ==
  /\ modal.timer
  /\ \E outcome \in PollOutcomes : modal' = poll([modal EXCEPT !.timer = FALSE], outcome)
  /\ UNCHANGED <<coreVars, socialVars, waVars, redirectCheck, jwt, jwtChecks, userinfo, page, boot, statusReq, creates>>

\* No sign-in page is open.
NoPage == [status |-> "", polls |-> 0, pollInterval |-> FALSE]

\* checkChannel of the sign-in page: one fetch of the relay's channel
\* status; a completed, error or expired channel clears the interval, a
\* pending one and a failed fetch leave it running.
checkChannel(p, outcome) ==
  IF outcome = "completed"
    THEN [p EXCEPT !.status = "success", !.pollInterval = FALSE, !.polls = @ + 1]
  ELSE IF outcome \in {"error", "expired"}
    THEN [p EXCEPT !.status = "error", !.pollInterval = FALSE, !.polls = @ + 1]
  ELSE [p EXCEPT !.polls = @ + 1]

\* The page's script starts: checkChannel() at once, then
\* setInterval(checkChannel, 2000).  The interval is set while the first
\* call waits for its fetch, so that call's clearInterval finds it.
PageLoad ==
  /\ page = NoPage
  /\ \E outcome \in PollOutcomes :
       page' = checkChannel([page EXCEPT !.status = "loading", !.pollInterval = TRUE],
                            outcome)
  /\ UNCHANGED <<coreVars, socialVars, waVars, redirectCheck, jwt, jwtChecks, userinfo, modal, boot, statusReq, creates>>

\* The interval fires.
PageInterval ==
  /\ page.pollInterval
  /\ page.polls < MaxPagePolls
  /\ \E outcome \in PollOutcomes : page' = checkChannel(page, outcome)
  /\ UNCHANGED <<coreVars, socialVars, waVars, redirectCheck, jwt, jwtChecks, userinfo, modal, boot, statusReq, creates>>

\* beforeunload: the user leaves the page.
PageUnload ==
  /\ page.pollInterval
  /\ page' = [page EXCEPT !.pollInterval = FALSE, !.status = "closed"]
  /\ UNCHANGED <<coreVars, socialVars, waVars, redirectCheck, jwt, jwtChecks, userinfo, modal, boot, statusReq, creates>>

\* --------------------------------------------- /api/auth/farcaster/status
MaxStatus == 2         \* /api/auth/farcaster/status requests
StatusIds == 1..MaxStatus

\* answer is what the pending fetch has brought back, Null while the
\* upstream has not answered; state is the body's `state`.
IdleStatus ==
  [pc |-> "idle", answer |-> Null, status |-> 0, state |-> "", error |-> "",
   code |-> Null]

StatusDone(q, status, state, error) ==
  [q EXCEPT !.pc = "done", !.answer = Null, !.status = status, !.state = state,
            !.error = error]

\* What the relay answers the status fetch with; "not_ok" is a response
\* that is not ok, "throws" a fetch that rejects.
RelayAnswers == {"pending", "completed", "error", "expired", "not_ok", "throws"}

\* The request up to `await fetch(relay status)`.
StatusStart(q) ==
  /\ statusReq[q].pc = "idle"
  /\ \A k \in 1..(q - 1) : statusReq[k].pc # "idle"
  /\ \E channelToken \in {"", "token"} :
       statusReq' = [statusReq EXCEPT ![q] =
         IF channelToken = "" THEN StatusDone(@, 400, "", "Missing channelToken")
         ELSE [@ EXCEPT !.pc = "relay"]]
  /\ UNCHANGED <<coreVars, socialVars, waVars, redirectCheck, jwt, jwtChecks, userinfo,
                 uiVars, boot, creates>>

\* The relay answers the pending fetch.
RelayAnswer(q) ==
  /\ statusReq[q].pc = "relay" /\ statusReq[q].answer = Null
  /\ \E answer \in RelayAnswers :
       statusReq' = [statusReq EXCEPT ![q].answer = Some(answer)]
  /\ UNCHANGED <<coreVars, socialVars, waVars, redirectCheck, jwt, jwtChecks, userinfo,
                 uiVars, boot, creates>>

\* The handler resumes with the relay's answer, up to the fetch of
\* lookupEthosProfile for a completed channel.
StatusAfterRelay(q) ==
  /\ statusReq[q].pc = "relay" /\ statusReq[q].answer # Null
  /\ LET answer == statusReq[q].answer[1] IN
       statusReq' = [statusReq EXCEPT ![q] =
         IF answer = "throws" THEN StatusDone(@, 500, "error", "Internal server error")
         ELSE IF answer = "not_ok" THEN StatusDone(@, 500, "error", "Failed to check status")
         ELSE IF answer = "pending" THEN StatusDone(@, 200, "pending", "")
         ELSE IF answer = "completed" THEN [@ EXCEPT !.pc = "lookup", !.answer = Null]
         ELSE StatusDone(@, 200, answer, "")]
  /\ UNCHANGED <<coreVars, socialVars, waVars, redirectCheck, jwt, jwtChecks, userinfo,
                 uiVars, boot, creates>>

\* The reputation service answers the lookup's fetch.
LookupAnswer(q) ==
  /\ statusReq[q].pc = "lookup" /\ statusReq[q].answer = Null
  /\ \E upstream \in Upstreams :
       statusReq' = [statusReq EXCEPT ![q].answer = Some(upstream)]
  /\ UNCHANGED <<coreVars, socialVars, waVars, redirectCheck, jwt, jwtChecks, userinfo,
                 uiVars, boot, creates>>

\* The handler resumes with the lookup's answer: no_ethos_profile for
\* null, otherwise the JWT and the code.
StatusAfterLookup(q) ==
  /\ statusReq[q].pc = "lookup" /\ statusReq[q].answer # Null
  /\ LET profile == lookupEthosProfile(statusReq[q].answer[1]) IN
       statusReq' = [statusReq EXCEPT ![q] =
         IF profile = Null THEN StatusDone(@, 200, "completed", "no_ethos_profile")
         ELSE StatusDone([@ EXCEPT !.code = Some(socialAuthCode("farcaster", profile[1], now))],
                         200, "completed", "")]
  /\ UNCHANGED <<coreVars, socialVars, waVars, redirectCheck, jwt, jwtChecks, userinfo,
                 uiVars, boot, creates>>

\* The steps the handler takes by itself.
StatusStep(q) == StatusAfterRelay(q) \/ StatusAfterLookup(q)

\* ------------------------------------------ RedisCredentialStore.create
MaxCreates == 2        \* credentialStore.create calls that are followed
CreateIds == 1..MaxCreates
CreateCredentialIds == {"cred1", "cred2"}

IdleCreate == [pc |-> "idle", credentialId |-> "", userId |-> "", error |-> ""]

\* /webauthn/register/verify after verifyRegistration succeeded: it calls
\* credentialStore.create({...credential, userId}) with the userId of the
\* request body.
CreateStart(p) ==
  /\ creates[p].pc = "idle"
  /\ \A q \in 1..(p - 1) : creates[q].pc # "idle"
  /\ \E credentialId \in CreateCredentialIds, userId \in UserIds :
       creates' = [creates EXCEPT ![p] =
         [pc |-> "exists", credentialId |-> credentialId, userId |-> userId, error |-> ""]]
  /\ UNCHANGED <<coreVars, socialVars, waVars, redirectCheck, jwt, jwtChecks, userinfo,
                 uiVars, boot, statusReq>>

\* create up to its first await: redis.exists, and the throw.
CreateExists(p) ==
  /\ creates[p].pc = "exists"
  /\ creates' = [creates EXCEPT ![p] =
       IF creates[p].credentialId \in DOMAIN credentials
         THEN [@ EXCEPT !.pc = "done", !.error = "Credential already exists"]
         ELSE [@ EXCEPT !.pc = "set"]]
  /\ UNCHANGED <<coreVars, socialVars, waVars, redirectCheck, jwt, jwtChecks, userinfo,
                 uiVars, boot, statusReq>>

\* create: redis.set of the credential.
CreateSet(p) ==
  /\ creates[p].pc = "set"
  /\ credentials' = credentialCreate(credentials, creates[p].credentialId, creates[p].userId)
  /\ creates' = [creates EXCEPT ![p].pc = "sadd"]
  /\ UNCHANGED <<coreVars, socialVars, chal, nChal, cons, userCredentials, redirectCheck, jwt,
                 jwtChecks, userinfo, uiVars, boot, statusReq>>

\* create: redis.sadd to the user's set, and the return.
CreateSadd(p) ==
  /\ creates[p].pc = "sadd"
  /\ userCredentials' = sadd(userCredentials, creates[p].userId, creates[p].credentialId)
  /\ creates' = [creates EXCEPT ![p].pc = "done"]
  /\ UNCHANGED <<coreVars, socialVars, chal, nChal, cons, credentials, redirectCheck, jwt,
                 jwtChecks, userinfo, uiVars, boot, statusReq>>

\* ------------------------------------------------------------- the clock
TickBy(step, maxTime) ==
  /\ now + step <= maxTime
  /\ now' = now + step
  /\ store' = Purge(store, now + step)
  /\ chal' = PurgeChallenges(chal, now + step)
  /\ UNCHANGED <<adapter, nNonces, nCodes, nStates, authz, ver, tok, pendingNonce, issuedAt,
                 socialVars, nChal, cons, credentials, userCredentials, libVars>>

Tick == TickBy(TickStep, MaxTime)

\* ------------------------------------------------------- specification
Init ==
  /\ now = 0
  /\ adapter \in {"memory", "redis"}
  /\ store = <<>>
  /\ nNonces = 0 /\ nCodes = 0 /\ nStates = 0
  /\ authz = NoAuthz
  /\ ver = [r \in VerIds |-> IdleVer]
  /\ tok = [t \in TokIds |-> IdleTok]
  /\ pendingNonce = Null
  /\ issuedAt = <<>>
  /\ session = Null /\ callbacks = <<>> /\ exchanges = <<>>
  /\ chal = <<>> /\ nChal = 0 /\ cons = [c \in ConsIds |-> IdleCons]
  /\ credentials = <<>>
  /\ redirectCheck = Null /\ jwt = Null /\ jwtChecks = <<>> /\ userinfo = <<>>
  /\ modal = IdleModal /\ page = NoPage
  /\ boot = [p \in BootIds |-> "idle"]
  /\ statusReq = [q \in StatusIds |-> IdleStatus]
  /\ userCredentials = [u \in UserIds |-> {}]
  /\ creates = [p \in CreateIds |-> IdleCreate]

\* The token endpoint under concurrent redemptions of wallet-issued codes.
Next ==
  \/ Tick
  \/ RegisterClient
  \/ NonceCreate
  \/ NonceStore
  \/ \E r \in 1..1 : VerStep(r)
  \/ \E t \in TokIds : TokStep(t)

vars == <<coreVars, socialVars, waVars, libVars>>

Spec == Init /\ [][Next]_vars

\* The whole wallet flow: /authorize, /nonce, /wallet/verify, /token.
NextFlow ==
  \/ Tick
  \/ AuthorizeFor({"demo_client", "partner_app"}, {localCb, <<>>})
  \/ NonceCreate
  \/ NonceStore
  \/ \E r \in 1..1 : VerStep(r)
  \/ \E t \in 1..1 : TokStep(t)

SpecFlow == Init /\ [][NextFlow]_vars

\* Concurrent /wallet/verify requests.
NextWallet ==
  \/ Tick
  \/ NonceCreate
  \/ NonceStore
  \/ \E r \in VerIds : VerStep(r)

SpecWallet == Init /\ [][NextWallet]_vars


\* The social-provider callbacks with their score gates.
NextSocial ==
  \/ Tick
  \/ SocialAuthorize
  \/ \E provider \in {"twitter", "discord"} : OAuthCallback(provider)
  \/ FarcasterCallback
  \/ TelegramCallback

SpecSocial == Init /\ [][NextSocial]_vars

\* One Twitter/X login and the token exchanges of the code it delivers.
NextExchange ==
  \/ Tick
  \/ SocialAuthorizeFor({"twitter"}, {appCb})
  \/ \E provider \in {"twitter"} : OAuthCallback(provider)
  \/ SocialToken

SpecExchange == Init /\ [][NextExchange]_vars

\* The WebAuthn challenge store under concurrent verify requests.
NextWebAuthn ==
  \/ Tick
  \/ RegisterOptions
  \/ AuthenticateOptions
  \/ \E c \in ConsIds : ConsStep(c)

SpecWebAuthn == Init /\ [][NextWebAuthn]_vars

\* A registration and two authentications of one credential, each with a
\* challenge of its own.
NextCounter ==
  \/ Tick
  \/ ChallengeOptions("registration", MaxCounterChallenges)
  \/ ChallengeOptions("authentication", MaxCounterChallenges)
  \/ \E c \in ConsIds : ConsStep(c)

SpecCounter == Init /\ [][NextCounter]_vars

\* The two Farcaster polling loops of the front end.
NextPolling ==
  \/ ModalStart
  \/ ModalTimer
  \/ PageLoad
  \/ PageInterval
  \/ PageUnload

SpecPolling == Init /\ [][NextPolling]_vars

\* The client registry under repeated registerClient calls and concurrent
\* ensureDemoClient callers.
NextClients ==
  \/ Tick
  \/ RegisterClientCall({"partner_app"}, {"App", "Renamed App"}, {<<appCb>>, <<evilCb>>})
  \/ DeleteClient
  \/ \E p \in BootIds : EnsureGet(p) \/ EnsureRegister(p)

SpecClients == Init /\ [][NextClients]_vars

\* The development client: its bootstrap by ensureDemoClient, an explicit
\* registration under its id with a list of the caller's choosing, and
\* redirect checks for it.
NextDemoRedirect ==
  \/ Tick
  \/ \E p \in BootIds : EnsureGet(p) \/ EnsureRegister(p)
  \/ RegisterClientCall({"demo_client"}, {"Demo Application"}, RegisteredUriLists)
  \/ ValidateRedirectFor({"demo_client"})

SpecDemoRedirect == Init /\ [][NextDemoRedirect]_vars

\* /api/auth/farcaster/status with its two upstream calls.  The handler's
\* own steps are taken whenever they can be (the event loop resumes a
\* request whose fetch has settled); nothing obliges the relay or the
\* reputation service to answer.
NextStatus ==
  \/ \E q \in StatusIds : StatusStart(q)
  \/ \E q \in StatusIds : RelayAnswer(q)
  \/ \E q \in StatusIds : LookupAnswer(q)
  \/ \E q \in StatusIds : StatusStep(q)

SpecStatus ==
  Init /\ [][NextStatus]_vars /\ \A q \in StatusIds : WF_vars(StatusStep(q))

\* Concurrent credentialStore.create calls on the Redis credential store.
NextCredential ==
  \/ \E p \in CreateIds : CreateStart(p)
  \/ \E p \in CreateIds : CreateExists(p)
  \/ \E p \in CreateIds : CreateSet(p)
  \/ \E p \in CreateIds : CreateSadd(p)

SpecCredential == Init /\ [][NextCredential]_vars

\* A Discord login beside the client registry.
NextRedirect ==
  \/ Tick
  \/ RegisterClient
  \/ SocialAuthorize
  \/ \E provider \in {"discord"} : OAuthCallback(provider)

SpecRedirect == Init /\ [][NextRedirect]_vars

\* The client registry: registrations, deregistrations and redirect checks.
NextRegistry ==
  \/ Tick
  \/ RegisterClientFor({"partner_app"}, RegisteredUriLists)
  \/ DeleteClient
  \/ ValidateRedirect

SpecRegistry == Init /\ [][NextRegistry]_vars

\* /authorize beside the client registry.
NextAuthorize ==
  \/ Tick
  \/ RegisterClientFor({"partner_app"}, {<<appCb>>, <<anyUri>>})
  \/ DeleteClient
  \/ Authorize

SpecAuthorize == Init /\ [][NextAuthorize]_vars

\* An access token from the moment it is signed until after it runs out.
NextToken ==
  \/ TickBy(TokenTickStep, TokenMaxTime)
  \/ IssueAccessToken
  \/ VerifyAccessToken

SpecToken == Init /\ [][NextToken]_vars

\* /userinfo on an access token as it ages.
NextUserInfo ==
  \/ TickBy(TokenTickStep, TokenMaxTime)
  \/ IssueAccessToken
  \/ UserInfo

SpecUserInfo == Init /\ [][NextUserInfo]_vars

\* =============================================================== claims
\* Whether the TTL of the key last written by storage.set has run out.
TTLElapsed(key, ttlSeconds) ==
  key \in DOMAIN issuedAt /\ now > issuedAt[key] + ttlSeconds * 1000

\* C1: of the /token requests that redeem one authorization code, however
\* they interleave, at most one is answered with an access token.
C1_OneTokenPerCode ==
  \A c \in IssuedCodes :
    Cardinality({t \in TokIds : tok[t].code = c /\ tok[t].status = 200}) <= 1

\* C2: of the /wallet/verify requests that present one nonce, at most one
\* passes the nonce check and is answered with an authorization code.
C2_OneCodePerNonce ==
  \A n \in IssuedNonces :
    Cardinality({r \in VerIds : ver[r].nonce = n /\ ver[r].status = 200}) <= 1

\* C4: a /token request of an authenticated client that presents a live code
\* bound to another client id is answered 400 invalid_grant, with no token.
C4_CodeBoundToClient ==
  \A t \in TokIds :
    (tok[t].pc = "done" /\ tok[t].authCodeData # Null
       /\ tok[t].authCodeData[1].clientId # tok[t].client_id)
      => (tok[t].status = 400 /\ tok[t].error = "invalid_grant"
            /\ tok[t].access_token = Null)

\* C4 witness: the registered client partner_app, authenticated, has
\* presented a live code that /wallet/verify bound to another client id.
C4_Witness ==
  \E t \in TokIds :
    /\ tok[t].pc = "done" /\ tok[t].client_id = "partner_app"
    /\ tok[t].authCodeData # Null
    /\ tok[t].authCodeData[1].clientId # "partner_app"
    /\ tok[t].error = "invalid_grant"

\* C5: every /token request answered with a token for a code bound to a
\* redirect URI presented a redirect_uri equal to the bound one.
C5_RedirectUriEqualsBound ==
  \A t \in TokIds :
    (tok[t].status = 200 /\ tok[t].authCodeData[1].redirectUri # <<>>)
      => tok[t].redirect_uri = tok[t].authCodeData[1].redirectUri

\* C6: once a code has been redeemed with success, every /token request
\* that looks the code up afterwards is answered 400 invalid_grant, with no
\* token.
C6_SingleUse ==
  [][\A t \in TokIds :
       (tok[t].pc = "get" /\ tok'[t].pc # "get"
          /\ \E u \in TokIds : tok[u].status = 200 /\ tok[u].code = tok[t].code)
         => (tok'[t].pc = "done" /\ tok'[t].status = 400
               /\ tok'[t].error = "invalid_grant" /\ tok'[t].access_token = Null)]_vars

\* C6 witness: one request redeemed a code and another request for the same
\* code, within the code's lifetime, found nothing in the store and was
\* refused.
C6_Witness ==
  \E t, u \in TokIds :
    /\ t # u /\ tok[u].status = 200 /\ tok[t].code = tok[u].code
    /\ tok[t].pc = "done" /\ tok[t].authCodeData = Null
    /\ tok[t].error = "invalid_grant"
    /\ ~TTLElapsed(CodeKey(tok[t].code), AUTH_CODE_TTL)

IssuedStates == {ToString(i) : i \in 1..nStates}

\* C8: a nonce, state or code presented after the TTL of its key has run out
\* is not returned by the store, and the request presenting it ends exactly
\* as the same request presenting a value that was never issued: an error
\* response, no code and no token.
C8_ExpiredLikeNeverIssued ==
  /\ [](\A s \in IssuedStates :
         TTLElapsed(StateKey(s), AUTH_STATE_TTL)
           => storageGet(store, StateKey(s), now) = Null)
  /\ [][/\ \A r \in VerIds :
            (ver[r].pc = "get" /\ ver'[r].pc # "get"
               /\ TTLElapsed(NonceKey(ver[r].nonce), NONCE_EXPIRY_SECONDS))
              => /\ storageGet(store, NonceKey(ver[r].nonce), now) = Null
                 /\ ver'[r] =
                      [verAfterGet([ver[r] EXCEPT !.nonce = "bogus"],
                                   storageGet(store, NonceKey("bogus"), now), now)
                         EXCEPT !.nonce = ver[r].nonce]
                 /\ ver'[r].pc = "done" /\ ver'[r].status = 400 /\ ver'[r].code = ""
        /\ \A t \in TokIds :
            (tok[t].pc = "get" /\ tok'[t].pc # "get"
               /\ TTLElapsed(CodeKey(tok[t].code), AUTH_CODE_TTL))
              => /\ storageGet(store, CodeKey(tok[t].code), now) = Null
                 /\ tok'[t] =
                      [tokAfterGet([tok[t] EXCEPT !.code = "bogus"],
                                   storageGet(store, CodeKey("bogus"), now))
                         EXCEPT !.code = tok[t].code]
                 /\ tok'[t].pc = "done" /\ tok'[t].status = 400
                 /\ tok'[t].access_token = Null]_vars

\* C8 witness: an authenticated client presented an issued code after its
\* 300 s had run out and was refused, and the state stored by /authorize
\* has outlived its TTL as well.
C8_Witness ==
  /\ \E t \in TokIds :
       /\ tok[t].pc = "done" /\ tok[t].code \in IssuedCodes
       /\ TTLElapsed(CodeKey(tok[t].code), AUTH_CODE_TTL)
       /\ tok[t].authCodeData = Null /\ tok[t].error = "invalid_grant"
  /\ \E s \in IssuedStates : TTLElapsed(StateKey(s), AUTH_STATE_TTL)

\* C9: after /authorize accepted client C with redirect URI R, and
\* /wallet/verify issued a code for R, the /token request of client C that
\* presents the live code with R is answered with a token whose
\* wallet_address is the address that signed.
C9_WalletFlowCompletes ==
  \A r \in VerIds, t \in TokIds :
    (/\ authz.status = 302
     /\ ver[r].status = 200 /\ ver[r].boundRedirectUri = authz.redirect_uri
     /\ tok[t].pc = "done" /\ tok[t].code = ver[r].code
     /\ tok[t].client_id = authz.client_id
     /\ tok[t].redirect_uri = authz.redirect_uri
     /\ tok[t].authCodeData # Null)
      => (/\ tok[t].status = 200
          /\ tok[t].access_token # Null
          /\ tok[t].access_token[1].wallet_address = ver[r].verifiedAddress)

\* C3: of the verify requests that consume one WebAuthn challenge, however
\* they interleave, at most one is handed the challenge by the store; while
\* the challenge is unexpired exactly one is, and every other one is
\* answered "Challenge not found or expired"; once a consume has run, the
\* challenge's key is gone.
C3_ConsumeAtomic ==
  \A ch \in IssuedChallenges :
    LET calls == {c \in ConsIds : cons[c].challenge = ch
                                     /\ cons[c].pc \in {"check", "update", "done"}}
        winners == {c \in calls : cons[c].result # Null}
    IN
      /\ Cardinality(winners) <= 1
      /\ Cardinality({c \in calls : cons[c].received # Null}) <= 1
      /\ calls # {} => ChallengeKey(ch) \notin DOMAIN chal
      /\ \A c \in calls \ winners :
           cons[c].pc = "done" =>
             (cons[c].received = Null /\ cons[c].status = 400
                /\ cons[c].error = "Challenge not found or expired")
      /\ (calls # {} /\ now <= issuedAt[ChallengeKey(ch)] + CHALLENGE_TIMEOUT_MS)
           => (/\ Cardinality(winners) = 1
               /\ \A c \in winners : cons[c].pc = "done" => cons[c].received # Null)

\* C3 witness: two verify requests consumed the same unexpired challenge;
\* one was handed it, the other was answered "Challenge not found or
\* expired".
C3_Witness ==
  \E c, d \in ConsIds :
    /\ c # d /\ cons[c].challenge \in IssuedChallenges
    /\ cons[d].challenge = cons[c].challenge
    /\ cons[c].pc = "done" /\ cons[c].received # Null
    /\ cons[d].pc = "done" /\ cons[d].received = Null
    /\ cons[d].error = "Challenge not found or expired"
    /\ now <= issuedAt[ChallengeKey(cons[c].challenge)] + CHALLENGE_TIMEOUT_MS

\* C7: a code delivered by a social-provider callback is exchanged with
\* success only within 300 s of its issue, and at most once: every exchange
\* of the code after a successful one is answered invalid_grant.
C7_SocialCodeSingleUse ==
  \A i, j \in 1..Len(exchanges) :
    /\ exchanges[i].status = 200
         => exchanges[i].at <= exchanges[i].access_token[1].iat + AUTH_CODE_TTL * 1000
    /\ (i < j /\ exchanges[i].status = 200 /\ exchanges[j].code = exchanges[i].code)
         => (exchanges[j].status = 400 /\ exchanges[j].error = "invalid_grant")

\* C10: a callback that resolved a profile while a numeric minScore was in
\* force ends in score_too_low without a code when score < minScore, and
\* delivers a code carrying the score when score >= minScore.
C10_ScoreGate ==
  \A i \in 1..Len(callbacks) :
    LET r == callbacks[i] IN
      (r.minScore.kind = "number" /\ r.profile # Null) =>
        IF r.profile[1] < r.minScore.value
          THEN r.error = "score_too_low" /\ r.code = Null
          ELSE /\ r.error = "" /\ r.code # Null
               /\ decodeAuthCode(r.code[1])[1].user[1].ethosScore = r.profile[1]

\* C10 witness: with minScore 1000 in force, a callback resolved a profile
\* of score 999 and turned it away without a code.
C10_Witness ==
  \E i \in 1..Len(callbacks) :
    /\ callbacks[i].minScore = Num(1000) /\ callbacks[i].profile = Some(999)
    /\ callbacks[i].error = "score_too_low" /\ callbacks[i].code = Null

\* C11: a /wallet/verify request answered with an authorization code resolved
\* the identity in that code for the address whose signature it verified,
\* never for an address the request body merely named.
C11_CodeOnlyForProvenIdentifier ==
  \A r \in VerIds :
    ver[r].code # "" => ver[r].address = ver[r].verifiedAddress

\* C12: a WebAuthn authentication answered with a code had its profile
\* returned by the resolver; when the resolver found none there is no code.
C12_CodeOnlyWithProfile ==
  \A c \in ConsIds :
    cons[c].code # Null => cons[c].profile # Null

\* C13: once the operator's clients are registered, every callback that
\* redirected the user agent with a code or an error redirected to a URI
\* that validateRedirectUri accepts for a client of the registry.
C13_RedirectOnlyToValidated ==
  (\A clientId \in RegisteredIds : getClient(store, clientId, now) # Null) =>
    \A i \in 1..Len(callbacks) :
      callbacks[i].redirectedTo # Null =>
        \E clientId \in ClientIds :
          validateRedirectUri(store, clientId, callbacks[i].redirectedTo[1], now)

\* C14: when /wallet/verify issues the code of a flow, no AuthorizationState
\* that /authorize created is left in the store: the identity-selection step
\* has read and deleted it.
C14_StateConsumedOnce ==
  [][\A r \in VerIds :
       (ver[r].code = "" /\ ver'[r].code # "") =>
         \A s \in IssuedStates : ~Present(store', StateKey(s), now')]_vars

\* C15: the code /wallet/verify mints while an AuthorizationState of
\* /authorize is live is bound to that state's clientId, redirectUri, scope
\* and original state.
C15_CodeBoundToAuthorizeState ==
  [][\A r \in VerIds :
       (ver[r].code = "" /\ ver'[r].code # "") =>
         \A s \in IssuedStates :
           Present(store, StateKey(s), now) =>
             LET stateData == store[StateKey(s)].value.data
                 authCodeData == store'[CodeKey(ver'[r].code)].value.data
             IN /\ authCodeData.clientId = stateData.clientId
                /\ authCodeData.redirectUri = stateData.redirectUri
                /\ authCodeData.scope = stateData.scope
                /\ authCodeData.state = stateData.originalState]_vars

\* C16: for a client registered with https://*.example.com/cb alone,
\* validateRedirectUri accepts https://a.example.com/cb and
\* https://b.example.com/cb and rejects https://example.com/cb and
\* https://a.b.example.com/cb.
C16_WildcardOneSegment ==
  (redirectCheck # Null /\ redirectCheck[1].registered = Some(<<wildExampleCb>>)) =>
    /\ redirectCheck[1].redirectUri \in {aExampleCb, bExampleCb} => redirectCheck[1].result
    /\ redirectCheck[1].redirectUri \in {bareExampleCb, abExampleCb} => ~redirectCheck[1].result

\* A well-formed HTTPS URI and a loopback URI, by scheme and host as written.
HttpsUris == {uri \in TestUris : uri[1] = "https:"}
LoopbackUris == {localCb, ipCb, subLocalCb, schemeLocalCb}

\* C17: for a client whose sole registered URI is "*", validateRedirectUri
\* accepts a URI exactly when it is a well-formed HTTPS URI or a loopback
\* URI; for an unknown client it accepts nothing.
C17_DynamicRedirects ==
  redirectCheck # Null =>
    /\ redirectCheck[1].registered = Some(<<anyUri>>) =>
         (redirectCheck[1].result <=>
            redirectCheck[1].redirectUri \in HttpsUris \cup LoopbackUris)
    /\ redirectCheck[1].registered = Null => ~redirectCheck[1].result

\* C17 witness: with "*" as the client's sole registered URI, the check
\* turned away the non-loopback URI http://app/cb.
C17_Witness ==
  /\ redirectCheck # Null
  /\ redirectCheck[1].registered = Some(<<anyUri>>)
  /\ redirectCheck[1].redirectUri = httpCb
  /\ ~redirectCheck[1].result

\* A step in which a /authorize request is answered with a validation error.
AuthorizeFailed == authz' # authz /\ authz'.status = 400

C19_AuthorizeErrorMapping ==
  [][authz' # authz =>
       LET q == authz'.request[1]
           known == ClientKey(q.client_id) \in DOMAIN store'
           failed(error) == /\ authz'.status = 400 /\ authz'.error = error
                            /\ nStates' = nStates
                            /\ \A s \in IssuedStates : StateKey(s) \in DOMAIN store' =>
                                 StateKey(s) \in DOMAIN store
       IN
         IF q.client_id = "" \/ q.redirect_uri = <<>> THEN failed("invalid_request")
         ELSE IF q.response_type # "code" THEN failed("unsupported_response_type")
         ELSE IF ~known THEN failed("invalid_client")
         ELSE IF ~validateRedirectUri(store', q.client_id, q.redirect_uri, now)
           THEN failed("invalid_request")
         ELSE /\ authz'.status = 302 /\ authz'.error = ""
              /\ authz'.internalState \notin IssuedStates
              /\ StateKey(authz'.internalState) \notin DOMAIN store
              /\ StateKey(authz'.internalState) \in DOMAIN store'
              /\ store'[StateKey(authz'.internalState)].value.data.clientId = q.client_id
              /\ store'[StateKey(authz'.internalState)].value.data.redirectUri = q.redirect_uri]_vars

\* C19 witness: the registered client partner_app asked for a redirect URI
\* it may not use and was answered 400 invalid_request.
C19_Witness ==
  /\ authz.request # Null
  /\ authz.request[1].client_id = "partner_app"
  /\ authz.request[1].response_type = "code"
  /\ authz.request[1].redirect_uri = localCb
  /\ authz.status = 400 /\ authz.error = "invalid_request"
  /\ authz.error_description = "Invalid redirect_uri for this client"

\* C20: verifyAccessToken on a token of generateAccessToken, called before
\* the token's hour has run out and with no clientId or the client's own,
\* returns claims whose ethos_profile_id and ethos_score are the profile's
\* id and score; called once the hour has passed it fails.
C20_TokenRoundTrip ==
  \A i \in 1..Len(jwtChecks) :
    LET check == jwtChecks[i]
        expiry == jwt[1].issuedAt + TOKEN_EXPIRES_IN * 1000
    IN /\ (check.at < expiry /\ check.clientId \in {"", jwt[1].clientId}) =>
            /\ check.payload # Null
            /\ check.payload[1].ethos_profile_id = jwt[1].ethosUser.profileId
            /\ check.payload[1].ethos_score = jwt[1].ethosUser.score
       /\ check.at > expiry => check.payload = Null

\* C20 witness: one token was verified with its claims returned, and later,
\* past its expiry, was turned away by a call that gave no clientId.
C20_Witness ==
  /\ Len(jwtChecks) = 2
  /\ jwtChecks[1].payload # Null
  /\ jwtChecks[1].payload[1].ethos_profile_id = 42
  /\ jwtChecks[2].clientId = ""
  /\ jwtChecks[2].at > jwt[1].issuedAt + TOKEN_EXPIRES_IN * 1000
  /\ jwtChecks[2].payload = Null

\* C21: any two /userinfo requests whose token verifyAccessToken turned
\* away are answered with the same 401 response, whatever made each token
\* invalid.
C21_InvalidTokenUniform ==
  \A i, j \in 1..Len(userinfo) :
    (/\ userinfo[i].presented # "none" /\ userinfo[i].status = 401
     /\ userinfo[j].presented # "none" /\ userinfo[j].status = 401) =>
      /\ userinfo[i].error = userinfo[j].error
      /\ userinfo[i].error_description = userinfo[j].error_description

\* C22: every access token handed out, by /token or by the social token
\* exchange, lives for the configured JWT_EXPIRY from its iat, and the
\* expires_in reported with it is that lifetime.
C22_OneTokenLifetime ==
  /\ \A t \in TokIds :
       tok[t].status = 200 =>
         /\ tok[t].access_token[1].exp - tok[t].access_token[1].iat = JWT_EXPIRY
         /\ tok[t].expires_in = JWT_EXPIRY
  /\ \A i \in 1..Len(exchanges) :
       exchanges[i].status = 200 =>
         /\ exchanges[i].access_token[1].exp - exchanges[i].access_token[1].iat
              = JWT_EXPIRY * 1000
         /\ exchanges[i].expires_in = JWT_EXPIRY

\* C23: a callback whose profile lookup was answered 404 ends in
\* no_ethos_profile, and one whose lookup failed upstream ends in
\* server_error, never in no_ethos_profile.
C23_NotFoundVersusUpstreamError ==
  \A i \in 1..Len(callbacks) :
    /\ callbacks[i].upstream = 404 => callbacks[i].error = "no_ethos_profile"
    /\ callbacks[i].upstream = 500 => callbacks[i].error = "server_error"

\* C24: a profile lookup that finds an unexpired cache entry under its key
\* returns that entry, calls no upstream service and writes nothing; a
\* lookup that misses calls upstream once and, when a profile comes back,
\* stores it under the key for ETHOS_CACHE_TTL seconds and returns it.
C24_ReadThroughCache ==
  [][\A r \in VerIds :
       (ver[r].pc = "lookup" /\ ver'[r].pc # "lookup") =>
         LET key == CacheKey("address", ver'[r].address) IN
           IF Present(store, key, now)
             THEN /\ ver'[r].pc = "mint"
                  /\ ver'[r].ethosUser = <<store[key].value.data>>
                  /\ ver'[r].upstreamCalls = 0
                  /\ store' = store
             ELSE /\ ver'[r].upstreamCalls = 1
                  /\ ver'[r].pc = "mint" =>
                       /\ Present(store', key, now)
                       /\ store'[key].value.data = ver'[r].ethosUser[1]
                       /\ store'[key].expiresAt = now + ETHOS_CACHE_TTL * 1000]_vars

\* C24 witness: two requests resolved the same address to the same profile,
\* the first through the upstream service and the second, 301 s later and
\* within the TTL, from the cache.
C24_Witness ==
  \E r, q \in VerIds :
    /\ ver[r].ethosUser # <<>> /\ ver[r].upstreamCalls = 1
    /\ ver[q].ethosUser = ver[r].ethosUser /\ ver[q].address = ver[r].address
    /\ ver[q].upstreamCalls = 0
    /\ LET key == CacheKey("address", ver[r].address) IN
         /\ key \in DOMAIN store
         /\ store[key].expiresAt = ETHOS_CACHE_TTL * 1000
    /\ now = TickStep
    /\ ver[q].pc = "done" /\ ver[q].codeCreatedAt = TickStep

\* C25: a twitter or discord callback that arrives with a live session and
\* a state parameter different from the session's state is answered with
\* invalid_state, and it makes no fetch to the provider, no identity lookup
\* and mints no code.
C25_StateMismatchStopsFlow ==
  [][(Len(callbacks') = Len(callbacks) + 1 /\ cookiePresent) =>
       LET response == callbacks'[Len(callbacks')] IN
         (response.state # Null /\ response.state[1] # session[1].state) =>
           /\ response.error = "invalid_state"
           /\ response.providerCalls = 0
           /\ response.upstream = 0
           /\ response.profile = Null
           /\ response.code = Null]_vars

\* C25 witness: a callback with a forged state was redirected with
\* invalid_state and the session cookie was cleared.
C25_Witness ==
  \E i \in 1..Len(callbacks) :
    /\ callbacks[i].state = Some("forged")
    /\ callbacks[i].error = "invalid_state"
    /\ callbacks[i].redirectedTo # Null
    /\ callbacks[i].providerCalls = 0
    /\ session = Null

\* C26: no step lowers the stored counter of a WebAuthn credential.
C26_CounterNeverDecreases ==
  [][\A id \in DOMAIN credentials :
       id \in DOMAIN credentials' /\ credentials'[id].counter >= credentials[id].counter]_vars

\* C27: a polling loop fetches the relay's status at most maxAttempts times,
\* and a loop that has made maxAttempts fetches and has no poll scheduled
\* any more shows the error state.
C27_PollingBounded ==
  /\ modal.polls <= maxAttempts
  /\ page.polls <= maxAttempts
  /\ (modal.polls = maxAttempts /\ ~modal.timer) => modal.view \in {"error", "success"}

\* C28: a callback in which a call to the OAuth provider or to the
\* reputation service failed answers server_error, and its description
\* does not carry the body of the provider's answer.
C28_NoInternalDetailEchoed ==
  \A i \in 1..Len(callbacks) :
    LET response == callbacks[i]
        tokenExchangeFailed == response.providerCalls = 1
        userFetchFailed == response.providerCalls = 2 /\ response.upstream = 0
        lookupFailed == response.upstream = 500
    IN (tokenExchangeFailed \/ userFetchFailed \/ lookupFailed) =>
         /\ response.error = "server_error"
         /\ \A k \in 1..Len(response.error_description) :
              response.error_description[k] # providerErrorBody

\* C28's echo alone: no description carries the body of the provider's
\* answer.
C28_DescriptionWithoutProviderBody ==
  \A i \in 1..Len(callbacks) :
    \A k \in 1..Len(callbacks[i].error_description) :
      callbacks[i].error_description[k] # providerErrorBody

\* The error codes the specification enumerates.
ErrorTaxonomy ==
  {"invalid_request", "invalid_client", "unsupported_response_type",
   "unsupported_grant_type", "invalid_grant", "invalid_state", "no_ethos_profile",
   "score_too_low", "invalid_auth", "auth_expired", "server_error"}

\* C29: a /wallet/verify request that fails after its fields were read
\* (on the nonce, the signature, the SIWE expiry or the lookup) carries an
\* error code of the taxonomy.
C29_ErrorTaxonomy ==
  \A r \in VerIds :
    (ver[r].pc = "done" /\ ver[r].status # 200 /\ ver[r].nonce # "") =>
      ver[r].error \in ErrorTaxonomy

\* C30: no step changes the record of a client that stays registered: its
\* clientSecretHash, name, redirectUris and createdAt are those it was
\* created with.
C30_ClientImmutable ==
  [][\A clientId \in ClientIds :
       LET key == ClientKey(clientId) IN
         (key \in DOMAIN store /\ key \in DOMAIN store') =>
           store'[key].value.data = store[key].value.data]_vars

\* C30 for the demo client alone, which only ensureDemoClient registers.
C30_DemoClientImmutable ==
  [][LET key == ClientKey("demo_client") IN
       (key \in DOMAIN store /\ key \in DOMAIN store') =>
         store'[key].value.data = store[key].value.data]_vars

\* C31: a /api/auth/farcaster/status request that is waiting for the relay
\* or for the reputation service eventually gets its response.
C31_UpstreamCallReturns ==
  \A q \in StatusIds :
    (statusReq[q].pc \in {"relay", "lookup"}) ~> (statusReq[q].pc = "done")

\* C32: a /wallet/verify request that arrives after another request's
\* nonce check found the same nonce live is never answered with a code.
C32_NoLaterSuccess ==
  \A r \in VerIds :
    ver[r].startedAfterLive => ver[r].code = ""

\* C32 once the first request's delete has run: a request whose nonce
\* lookup comes after the delete of a request that found the nonce live is
\* answered "Invalid or expired nonce", whatever became of that request's
\* signature and expiration checks.
C32_NoSuccessAfterDelete ==
  [][\A r \in VerIds :
       (/\ ver[r].pc = "get" /\ ver'[r].pc # "get"
        /\ \E q \in VerIds \ {r} :
             /\ ver[q].nonce = ver[r].nonce /\ ver[q].foundLive /\ ver[q].pc # "del")
       => (ver'[r].pc = "done" /\ ver'[r].error = "Invalid or expired nonce")]_vars

\* C33: the profile kept in a stored wallet code is the profile of the
\* address recovered from the signature, the code's walletAddress.
C33_CodeCarriesSignersProfile ==
  \A c \in IssuedCodes :
    CodeKey(c) \in DOMAIN store =>
      LET data == store[CodeKey(c)].value.data IN
        data.ethosUser = UpstreamProfile(data.walletAddress)

\* C34: the step in which /token checks grant_type, code and the client
\* credentials changes nothing in the store; a request it rejects ends with
\* unsupported_grant_type, invalid_request or invalid_client, and only a
\* request that names a code and a registered client goes on to read the
\* code.
C34_TokenChecksClientFirst ==
  [][\A t \in TokIds :
       (tok[t].pc = "idle" /\ tok'[t].pc # "idle") =>
         /\ store' = store
         /\ tok'[t].pc \in {"done", "get"}
         /\ tok'[t].pc = "done" =>
              tok'[t].error \in {"unsupported_grant_type", "invalid_request", "invalid_client"}
         /\ tok'[t].pc = "get" =>
              /\ tok'[t].code # ""
              /\ getClient(store, tok'[t].client_id, now) # Null]_vars

\* C34 witness: a request rejected with invalid_client was followed by a
\* request of the rightful client that redeemed the code.
C34_Witness ==
  /\ tok[1].pc = "done" /\ tok[1].error = "invalid_client"
  /\ tok[2].pc = "done" /\ tok[2].status = 200 /\ tok[2].code \in IssuedCodes
  /\ CodeKey(tok[2].code) \notin DOMAIN store

\* The /token requests rejected by a binding check of the code.
BindingRejected(q) ==
  /\ q.pc = "done" /\ q.error = "invalid_grant"
  /\ q.description \in {"Authorization code was not issued to this client",
                        "Redirect URI mismatch"}

\* C35: once a /token request has been rejected for a client_id or
\* redirect_uri mismatch its code is gone from the store, and every request
\* that looks the code up afterwards is answered invalid_grant.
C35_MismatchConsumesCode ==
  /\ [](\A t \in TokIds : BindingRejected(tok[t]) => CodeKey(tok[t].code) \notin DOMAIN store)
  /\ [][\A t \in TokIds :
          (/\ tok[t].pc = "get" /\ tok'[t].pc # "get"
           /\ \E q \in TokIds \ {t} : BindingRejected(tok[q]) /\ tok[q].code = tok[t].code)
          => /\ tok'[t].pc = "done" /\ tok'[t].error = "invalid_grant"
             /\ tok'[t].access_token = <<>>]_vars

\* C35 witness: a client the code was not issued to was rejected, and the
\* rightful client's redemption of the same code afterwards was answered
\* invalid_grant.
C35_Witness ==
  \E q, t \in TokIds :
    /\ q # t /\ BindingRejected(tok[q]) /\ tok[q].code \in IssuedCodes
    /\ tok[q].client_id # tok[q].authCodeData[1].clientId
    /\ tok[t].code = tok[q].code /\ tok[t].client_id = tok[q].authCodeData[1].clientId
    /\ tok[t].pc = "done" /\ tok[t].error = "invalid_grant"
    /\ tok[t].description = "Invalid or expired authorization code"
    /\ tok[t].authCodeData = <<>>


\* C36: a stored credential keeps its owner (a create for an existing id
\* leaves it as it was), and a user's credential set lists an id only when
\* the credential stored under that id records that user.
C36_OwnedByOneUser ==
  \A u \in UserIds : \A id \in userCredentials[u] :
    id \in DOMAIN credentials /\ credentials[id].userId = u

\* C36, the stored credential: once written, a credential and its owner are
\* never replaced by a later create.
C36_CreateNeverOverwrites ==
  [][\A id \in DOMAIN credentials :
       id \in DOMAIN credentials' /\ credentials'[id] = credentials[id]]_vars

\* C36, one call at a time: a create that starts when no other create is
\* between its exists and its return fails on an existing id and changes
\* nothing.
C36_SequentialCreateFails ==
  [][\A p \in CreateIds :
       (/\ creates[p].pc = "exists" /\ creates'[p].pc # "exists"
        /\ creates[p].credentialId \in DOMAIN credentials)
       => /\ creates'[p].pc = "done" /\ creates'[p].error = "Credential already exists"
          /\ credentials' = credentials /\ userCredentials' = userCredentials]_vars


\* C37: an /webauthn/authenticate/verify request that reached
\* verifyAuthentication has consumed its challenge (the key is gone, whether
\* verification then passed or failed) and no two such requests verified
\* against the same challenge; a request rejected before consume (missing
\* fields, unknown credential id) leaves the challenge store as it was.
C37_VerifiedMeansConsumed ==
  /\ [](\A c \in ConsIds :
          (cons[c].kind = "authenticate" /\ cons[c].received # Null) =>
            /\ ChallengeKey(cons[c].challenge) \notin DOMAIN chal
            /\ \A d \in ConsIds \ {c} :
                 (cons[d].kind = "authenticate" /\ cons[d].received # Null)
                   => cons[d].challenge # cons[c].challenge)
  /\ [][\A c \in ConsIds :
          (cons[c].pc = "idle" /\ cons'[c].pc = "done" /\ cons'[c].kind = "authenticate")
            => (chal' = chal /\ cons'[c].received = Null)]_vars

\* C37 witness: an authentication whose verification failed after it took
\* the challenge, and a second authentication with the same challenge that
\* found none.
C37_Witness ==
  \E c, d \in ConsIds :
    /\ c # d /\ cons[c].kind = "authenticate" /\ cons[d].kind = "authenticate"
    /\ cons[c].pc = "done" /\ cons[c].received # Null
    /\ cons[c].error = "Authentication failed"
    /\ cons[d].challenge = cons[c].challenge
    /\ cons[d].pc = "done" /\ cons[d].error = "Challenge not found or expired"


\* C38: on either adapter, get of a key that was set and has neither expired
\* nor been deleted returns a value equal to the stored one, also when the
\* stored value is a string of JSON text like the nonce record.
C38_GetReturnsStored ==
  \A key \in DOMAIN store :
    Present(store, key, now) => storageGet(store, key, now) = Some(store[key].value)

\* C38 on the in-memory adapter alone.
C38_MemoryGetReturnsStored ==
  adapter = "memory" => C38_GetReturnsStored

\* C38 for values stored as objects, on both adapters.
C38_ObjectsGetReturnsStored ==
  \A key \in DOMAIN store :
    (Present(store, key, now) /\ store[key].value.type = "object")
      => storageGet(store, key, now) = Some(store[key].value)


\* C39: a redirect check for demo_client, once the client exists, accepts
\* every well-formed loopback URI whatever list the client is registered
\* with, and with the empty list of the bootstrap it rejects every URI that
\* is not loopback.
C39_DemoClientLoopbackOnly ==
  (/\ redirectCheck # Null /\ redirectCheck[1].clientId = "demo_client"
   /\ redirectCheck[1].registered # Null) =>
    /\ redirectCheck[1].redirectUri \in LoopbackUris => redirectCheck[1].result
    /\ (redirectCheck[1].registered = Some(<<>>)
          /\ redirectCheck[1].redirectUri \notin LoopbackUris) => ~redirectCheck[1].result

\* C39 witness: the demo client registered with https://app/cb alone had
\* http://127.0.0.1/cb accepted.
C39_Witness ==
  /\ redirectCheck # Null /\ redirectCheck[1].clientId = "demo_client"
  /\ redirectCheck[1].registered = Some(<<appCb>>)
  /\ redirectCheck[1].redirectUri = ipCb
  /\ redirectCheck[1].result

\* C39 witness of the rejection: the bootstrapped demo client, its list
\* empty, had https://app/cb turned away.
C39_RejectWitness ==
  /\ redirectCheck # Null /\ redirectCheck[1].clientId = "demo_client"
  /\ redirectCheck[1].registered = Some(<<>>)
  /\ boot[1] = "done"
  /\ redirectCheck[1].redirectUri = appCb
  /\ ~redirectCheck[1].result

=============================================================================
